---- MODULE Spec2Model ----
(***************************************************************************)
(* AutoFlow workflow engine (backend/workflow_engine.py): the Make <-> n8n *)
(* converter and the workflow debugger (analyze_workflow, generate_fix).    *)
(*                                                                         *)
(* Python values are tagged records, so that values of different Python    *)
(* types can be compared:                                                  *)
(*   None -> [t |-> "none"]       int  -> [t |-> "int", n |-> 1]           *)
(*   str  -> [t |-> "str", s |-> "abc"]                                    *)
(*   list -> [t |-> "list", l |-> <<...>>]                                 *)
(*   dict -> [t |-> "dict", d |-> [key |-> value]]  (string keys)          *)
(* A raised exception is the record [t |-> "exc", type |-> .., msg |-> ..].*)
(***************************************************************************)
EXTENDS Integers, Sequences, FiniteSets, TLC

VARIABLES
  source,      \* the parsed blueprint handed to the converter
  platform,    \* the platform the caller declares for `source`
  stage,       \* "idle" | "ready" | "converted" | "roundtrip"
  first,       \* ConversionResult of the first conversion
  second,      \* ConversionResult of converting first's document back
  workflow,    \* the parsed blueprint handed to the debugger
  dplatform,   \* the platform the caller declares for `workflow`
  dstage,      \* "idle" | "ready" | "analyzed" | "fixed"
  findings,    \* the findings in hand: analyze_workflow's, or the caller's own
  fixed,       \* what generate_fix returned
  after,       \* the caller's blueprint object after generate_fix
  analyses,    \* what each analyze_workflow call on this debugger returned
  conversation_state, \* WorkflowTroubleshooter.conversation_state: session id -> state
  reply,       \* what the last ask_diagnostic_questions call returned or raised
  asked,       \* the last call: its session id, its message, the step it found
  calls,       \* number of ask_diagnostic_questions calls made so far
  threads,     \* the calls running in parallel: thread -> position and locals
  started,     \* the session map that the parallel calls started from
  users,       \* db.users: user id -> user document
  automations, \* db.automations: the stored automation records, in order
  conversions, \* db.blueprint_conversions: the stored conversion records
  requests,    \* the HTTP requests being served: slot -> position and locals
  served       \* number of requests received so far

convVars == <<source, platform, stage, first, second>>
dbgVars == <<workflow, dplatform, dstage, findings, fixed, after, analyses>>
trbVars == <<conversation_state, reply, asked, calls, threads, started>>
srvVars == <<users, automations, conversions, requests, served>>
vars == <<convVars, dbgVars, trbVars, srvVars>>

-----------------------------------------------------------------------------
(* Bounds of the model.                                                    *)

\* longest node list built from the core node set
MaxNodes == 2

\* most analyze_workflow calls made on one debugger
MaxAnalyses == 2

-----------------------------------------------------------------------------
(* Python values.                                                          *)

PyNone == [t |-> "none"]
PyInt(n) == [t |-> "int", n |-> n]
PyStr(s) == [t |-> "str", s |-> s]
PyBool(b) == [t |-> "bool", b |-> b]
PyFloat(f) == [t |-> "float", f |-> f]
PyList(l) == [t |-> "list", l |-> l]
PyDict(d) == [t |-> "dict", d |-> d]
EmptyDict == PyDict(<<>>)
EmptyList == PyList(<<>>)

Raise(type, msg) == [t |-> "exc", type |-> type, msg |-> msg]
IsExc(v) == v.t = "exc"

\* type(v).__name__
TypeName(v) ==
  CASE v.t = "none" -> "NoneType"
    [] v.t = "bool" -> "bool"
    [] OTHER -> v.t

\* str(v) / f"{v}" for the scalar values of the model
Str(v) ==
  CASE v.t = "str" -> v.s
    [] v.t = "int" -> ToString(v.n)
    [] v.t = "none" -> "None"
    [] v.t = "float" -> v.f
    [] v.t = "bool" -> IF v.b THEN "True" ELSE "False"
    [] v.t = "list" -> IF v.l = <<>> THEN "[]" ELSE "[...]"
    [] v.t = "dict" -> IF DOMAIN v.d = {} THEN "{}" ELSE "{...}"

\* bool(v)
Truthy(v) ==
  CASE v.t = "none" -> FALSE
    [] v.t = "bool" -> v.b
    [] v.t = "int" -> v.n # 0
    [] v.t = "float" -> v.f # "0.0"
    [] v.t = "str" -> v.s # ""
    [] v.t = "list" -> v.l # <<>>
    [] v.t = "dict" -> DOMAIN v.d # {}

\* v.attr(...) on a value whose type has no such attribute
AttrError(v, attr) ==
  Raise("AttributeError",
        "'" \o TypeName(v) \o "' object has no attribute '" \o attr \o "'")

\* `x in v` on a value that is no container
NotContainer(v) ==
  Raise("TypeError", "argument of type '" \o TypeName(v) \o "' is not iterable")

\* iterating a value that is not iterable
NotIterable(v) ==
  Raise("TypeError", "'" \o TypeName(v) \o "' object is not iterable")

\* using a list or a dict as a dict key
Unhashable(v) == Raise("TypeError", "unhashable type: '" \o TypeName(v) \o "'")

Hashable(v) == v.t \notin {"list", "dict"}

\* d.get(k, default) on the mapping part of a dict
Get(d, k, default) == IF k \in DOMAIN d.d THEN d.d[k] ELSE default

\* d[k] = v
Put(d, k, v) == PyDict([x \in (DOMAIN d.d) \cup {k} |-> IF x = k THEN v ELSE d.d[x]])

\* a.update(b): the keys of b win
Update(a, b) ==
  PyDict([x \in (DOMAIN a.d) \cup (DOMAIN b.d) |->
            IF x \in DOMAIN b.d THEN b.d[x] ELSE a.d[x]])

\* json.dumps(v): the text of the document v; json.loads reads it back
JsonDumps(v) == [t |-> "str", json |-> v]
IsJsonText(s) == s.t = "str" /\ "json" \in DOMAIN s

\* the texts a caller types that json.loads accepts, with the value it returns
\* for each; the parser also accepts the literal NaN, which is no JSON
JSON_TEXTS ==
  "{}" :> EmptyDict @@ "[]" :> EmptyList @@ "null" :> PyNone
  @@ "5" :> PyInt(5) @@ "\"abc\"" :> PyStr("abc") @@ "NaN" :> PyFloat("nan")
  @@ "{\"flow\": [{\"id\": 1, \"module\": \"http:ActionSendData\", \"parameters\": {}}]}"
       :> PyDict("flow" :> PyList(<<PyDict("id" :> PyInt(1)
                     @@ "module" :> PyStr("http:ActionSendData")
                     @@ "parameters" :> EmptyDict)>>))
  @@ "{\"nodes\": [{\"name\": \"HTTP\", \"type\": \"n8n-nodes-base.httpRequest\", \"parameters\": {}}]}"
       :> PyDict("nodes" :> PyList(<<PyDict("name" :> PyStr("HTTP")
                     @@ "type" :> PyStr("n8n-nodes-base.httpRequest")
                     @@ "parameters" :> EmptyDict)>>))

\* json.loads(s)
JsonLoads(s) ==
  IF IsJsonText(s) THEN s.json
  ELSE IF s.s \in DOMAIN JSON_TEXTS THEN JSON_TEXTS[s.s]
  ELSE Raise("JSONDecodeError", "Expecting value")

-----------------------------------------------------------------------------
(* Python strings: the characters of the strings the model computes on.    *)

Chars ==
  "google-sheets:WatchRows" :> <<"g", "o", "o", "g", "l", "e", "-", "s", "h", "e", "e", "t", "s", ":", "W", "a", "t", "c", "h", "R", "o", "w", "s">> @@
  "google-sheets:SearchRows" :> <<"g", "o", "o", "g", "l", "e", "-", "s", "h", "e", "e", "t", "s", ":", "S", "e", "a", "r", "c", "h", "R", "o", "w", "s">> @@
  "google-sheets:AddRow" :> <<"g", "o", "o", "g", "l", "e", "-", "s", "h", "e", "e", "t", "s", ":", "A", "d", "d", "R", "o", "w">> @@
  "google-sheets:UpdateRow" :> <<"g", "o", "o", "g", "l", "e", "-", "s", "h", "e", "e", "t", "s", ":", "U", "p", "d", "a", "t", "e", "R", "o", "w">> @@
  "google-drive:WatchFiles" :> <<"g", "o", "o", "g", "l", "e", "-", "d", "r", "i", "v", "e", ":", "W", "a", "t", "c", "h", "F", "i", "l", "e", "s">> @@
  "google-drive:UploadFile" :> <<"g", "o", "o", "g", "l", "e", "-", "d", "r", "i", "v", "e", ":", "U", "p", "l", "o", "a", "d", "F", "i", "l", "e">> @@
  "openai:CreateChatCompletion" :> <<"o", "p", "e", "n", "a", "i", ":", "C", "r", "e", "a", "t", "e", "C", "h", "a", "t", "C", "o", "m", "p", "l", "e", "t", "i", "o", "n">> @@
  "openai:CreateImage" :> <<"o", "p", "e", "n", "a", "i", ":", "C", "r", "e", "a", "t", "e", "I", "m", "a", "g", "e">> @@
  "openai:CreateCompletion" :> <<"o", "p", "e", "n", "a", "i", ":", "C", "r", "e", "a", "t", "e", "C", "o", "m", "p", "l", "e", "t", "i", "o", "n">> @@
  "http:ActionSendData" :> <<"h", "t", "t", "p", ":", "A", "c", "t", "i", "o", "n", "S", "e", "n", "d", "D", "a", "t", "a">> @@
  "http:ActionSendDataOAuth2" :> <<"h", "t", "t", "p", ":", "A", "c", "t", "i", "o", "n", "S", "e", "n", "d", "D", "a", "t", "a", "O", "A", "u", "t", "h", "2">> @@
  "webhook:CustomWebHook" :> <<"w", "e", "b", "h", "o", "o", "k", ":", "C", "u", "s", "t", "o", "m", "W", "e", "b", "H", "o", "o", "k">> @@
  "wordpress:CreatePost" :> <<"w", "o", "r", "d", "p", "r", "e", "s", "s", ":", "C", "r", "e", "a", "t", "e", "P", "o", "s", "t">> @@
  "wordpress:UpdatePost" :> <<"w", "o", "r", "d", "p", "r", "e", "s", "s", ":", "U", "p", "d", "a", "t", "e", "P", "o", "s", "t">> @@
  "wordpress:GetPost" :> <<"w", "o", "r", "d", "p", "r", "e", "s", "s", ":", "G", "e", "t", "P", "o", "s", "t">> @@
  "instagram:CreateMedia" :> <<"i", "n", "s", "t", "a", "g", "r", "a", "m", ":", "C", "r", "e", "a", "t", "e", "M", "e", "d", "i", "a">> @@
  "facebook:CreatePost" :> <<"f", "a", "c", "e", "b", "o", "o", "k", ":", "C", "r", "e", "a", "t", "e", "P", "o", "s", "t">> @@
  "twitter:CreateTweet" :> <<"t", "w", "i", "t", "t", "e", "r", ":", "C", "r", "e", "a", "t", "e", "T", "w", "e", "e", "t">> @@
  "youtube:UploadVideo" :> <<"y", "o", "u", "t", "u", "b", "e", ":", "U", "p", "l", "o", "a", "d", "V", "i", "d", "e", "o">> @@
  "builtin:Sleep" :> <<"b", "u", "i", "l", "t", "i", "n", ":", "S", "l", "e", "e", "p">> @@
  "builtin:SetVariable" :> <<"b", "u", "i", "l", "t", "i", "n", ":", "S", "e", "t", "V", "a", "r", "i", "a", "b", "l", "e">> @@
  "builtin:TextAggregator" :> <<"b", "u", "i", "l", "t", "i", "n", ":", "T", "e", "x", "t", "A", "g", "g", "r", "e", "g", "a", "t", "o", "r">> @@
  "json:ParseJSON" :> <<"j", "s", "o", "n", ":", "P", "a", "r", "s", "e", "J", "S", "O", "N">> @@
  "email:ActionSendEmail" :> <<"e", "m", "a", "i", "l", ":", "A", "c", "t", "i", "o", "n", "S", "e", "n", "d", "E", "m", "a", "i", "l">> @@
  "gmail:ActionSendEmail" :> <<"g", "m", "a", "i", "l", ":", "A", "c", "t", "i", "o", "n", "S", "e", "n", "d", "E", "m", "a", "i", "l">> @@
  "gmail:TriggerWatchEmails" :> <<"g", "m", "a", "i", "l", ":", "T", "r", "i", "g", "g", "e", "r", "W", "a", "t", "c", "h", "E", "m", "a", "i", "l", "s">> @@
  "hubspot:CreateContact" :> <<"h", "u", "b", "s", "p", "o", "t", ":", "C", "r", "e", "a", "t", "e", "C", "o", "n", "t", "a", "c", "t">> @@
  "hubspot:UpdateContact" :> <<"h", "u", "b", "s", "p", "o", "t", ":", "U", "p", "d", "a", "t", "e", "C", "o", "n", "t", "a", "c", "t">> @@
  "hubspot:SearchContacts" :> <<"h", "u", "b", "s", "p", "o", "t", ":", "S", "e", "a", "r", "c", "h", "C", "o", "n", "t", "a", "c", "t", "s">> @@
  "n8n-nodes-base.googleSheetsTrigger" :> <<"n", "8", "n", "-", "n", "o", "d", "e", "s", "-", "b", "a", "s", "e", ".", "g", "o", "o", "g", "l", "e", "S", "h", "e", "e", "t", "s", "T", "r", "i", "g", "g", "e", "r">> @@
  "n8n-nodes-base.googleSheets" :> <<"n", "8", "n", "-", "n", "o", "d", "e", "s", "-", "b", "a", "s", "e", ".", "g", "o", "o", "g", "l", "e", "S", "h", "e", "e", "t", "s">> @@
  "n8n-nodes-base.googleDriveTrigger" :> <<"n", "8", "n", "-", "n", "o", "d", "e", "s", "-", "b", "a", "s", "e", ".", "g", "o", "o", "g", "l", "e", "D", "r", "i", "v", "e", "T", "r", "i", "g", "g", "e", "r">> @@
  "n8n-nodes-base.googleDrive" :> <<"n", "8", "n", "-", "n", "o", "d", "e", "s", "-", "b", "a", "s", "e", ".", "g", "o", "o", "g", "l", "e", "D", "r", "i", "v", "e">> @@
  "n8n-nodes-base.openAi" :> <<"n", "8", "n", "-", "n", "o", "d", "e", "s", "-", "b", "a", "s", "e", ".", "o", "p", "e", "n", "A", "i">> @@
  "n8n-nodes-base.httpRequest" :> <<"n", "8", "n", "-", "n", "o", "d", "e", "s", "-", "b", "a", "s", "e", ".", "h", "t", "t", "p", "R", "e", "q", "u", "e", "s", "t">> @@
  "n8n-nodes-base.webhook" :> <<"n", "8", "n", "-", "n", "o", "d", "e", "s", "-", "b", "a", "s", "e", ".", "w", "e", "b", "h", "o", "o", "k">> @@
  "n8n-nodes-base.wordpress" :> <<"n", "8", "n", "-", "n", "o", "d", "e", "s", "-", "b", "a", "s", "e", ".", "w", "o", "r", "d", "p", "r", "e", "s", "s">> @@
  "n8n-nodes-base.facebookGraphApi" :> <<"n", "8", "n", "-", "n", "o", "d", "e", "s", "-", "b", "a", "s", "e", ".", "f", "a", "c", "e", "b", "o", "o", "k", "G", "r", "a", "p", "h", "A", "p", "i">> @@
  "n8n-nodes-base.twitter" :> <<"n", "8", "n", "-", "n", "o", "d", "e", "s", "-", "b", "a", "s", "e", ".", "t", "w", "i", "t", "t", "e", "r">> @@
  "n8n-nodes-base.youTube" :> <<"n", "8", "n", "-", "n", "o", "d", "e", "s", "-", "b", "a", "s", "e", ".", "y", "o", "u", "T", "u", "b", "e">> @@
  "n8n-nodes-base.wait" :> <<"n", "8", "n", "-", "n", "o", "d", "e", "s", "-", "b", "a", "s", "e", ".", "w", "a", "i", "t">> @@
  "n8n-nodes-base.set" :> <<"n", "8", "n", "-", "n", "o", "d", "e", "s", "-", "b", "a", "s", "e", ".", "s", "e", "t">> @@
  "n8n-nodes-base.merge" :> <<"n", "8", "n", "-", "n", "o", "d", "e", "s", "-", "b", "a", "s", "e", ".", "m", "e", "r", "g", "e">> @@
  "n8n-nodes-base.code" :> <<"n", "8", "n", "-", "n", "o", "d", "e", "s", "-", "b", "a", "s", "e", ".", "c", "o", "d", "e">> @@
  "n8n-nodes-base.emailSend" :> <<"n", "8", "n", "-", "n", "o", "d", "e", "s", "-", "b", "a", "s", "e", ".", "e", "m", "a", "i", "l", "S", "e", "n", "d">> @@
  "n8n-nodes-base.gmail" :> <<"n", "8", "n", "-", "n", "o", "d", "e", "s", "-", "b", "a", "s", "e", ".", "g", "m", "a", "i", "l">> @@
  "n8n-nodes-base.hubspot" :> <<"n", "8", "n", "-", "n", "o", "d", "e", "s", "-", "b", "a", "s", "e", ".", "h", "u", "b", "s", "p", "o", "t">> @@
  "" :> <<>> @@
  "webhook:webhook" :> <<"w", "e", "b", "h", "o", "o", "k", ":", "w", "e", "b", "h", "o", "o", "k">> @@
  "email:send" :> <<"e", "m", "a", "i", "l", ":", "s", "e", "n", "d">> @@
  "http:makeAnAPICall" :> <<"h", "t", "t", "p", ":", "m", "a", "k", "e", "A", "n", "A", "P", "I", "C", "a", "l", "l">> @@
  "google-sheets:GetRange" :> <<"g", "o", "o", "g", "l", "e", "-", "s", "h", "e", "e", "t", "s", ":", "G", "e", "t", "R", "a", "n", "g", "e">> @@
  "openai:CreateTranscription" :> <<"o", "p", "e", "n", "a", "i", ":", "C", "r", "e", "a", "t", "e", "T", "r", "a", "n", "s", "c", "r", "i", "p", "t", "i", "o", "n">> @@
  "builtin:Router" :> <<"b", "u", "i", "l", "t", "i", "n", ":", "R", "o", "u", "t", "e", "r">> @@
  "n8n-nodes-base.start" :> <<"n", "8", "n", "-", "n", "o", "d", "e", "s", "-", "b", "a", "s", "e", ".", "s", "t", "a", "r", "t">> @@
  "n8n-nodes-base.if" :> <<"n", "8", "n", "-", "n", "o", "d", "e", "s", "-", "b", "a", "s", "e", ".", "i", "f">> @@
  "n8n-nodes-base.slack" :> <<"n", "8", "n", "-", "n", "o", "d", "e", "s", "-", "b", "a", "s", "e", ".", "s", "l", "a", "c", "k">> @@
  "google-sheets" :> <<"g", "o", "o", "g", "l", "e", "-", "s", "h", "e", "e", "t", "s">> @@
  "openai" :> <<"o", "p", "e", "n", "a", "i">> @@
  "http" :> <<"h", "t", "t", "p">> @@
  "googleSheets" :> <<"g", "o", "o", "g", "l", "e", "S", "h", "e", "e", "t", "s">> @@
  "openAi" :> <<"o", "p", "e", "n", "A", "i">> @@
  "httpRequest" :> <<"h", "t", "t", "p", "R", "e", "q", "u", "e", "s", "t">> @@
  "Test Workflow" :> <<"T", "e", "s", "t", " ", "W", "o", "r", "k", "f", "l", "o", "w">> @@
  "Converted Workflow" :> <<"C", "o", "n", "v", "e", "r", "t", "e", "d", " ", "W", "o", "r", "k", "f", "l", "o", "w">> @@
  "Converted Scenario" :> <<"C", "o", "n", "v", "e", "r", "t", "e", "d", " ", "S", "c", "e", "n", "a", "r", "i", "o">> @@
  "test-workflow" :> <<"t", "e", "s", "t", "-", "w", "o", "r", "k", "f", "l", "o", "w">> @@
  "converted-workflow" :> <<"c", "o", "n", "v", "e", "r", "t", "e", "d", "-", "w", "o", "r", "k", "f", "l", "o", "w">> @@
  "post" :> <<"p", "o", "s", "t">> @@
  "POST" :> <<"P", "O", "S", "T">> @@
  "Get" :> <<"G", "e", "t">> @@
  "GET" :> <<"G", "E", "T">> @@
  "get" :> <<"g", "e", "t">> @@
  "Missing required spreadsheet ID" :> <<"M", "i", "s", "s", "i", "n", "g", " ", "r", "e", "q", "u", "i", "r", "e", "d", " ", "s", "p", "r", "e", "a", "d", "s", "h", "e", "e", "t", " ", "I", "D">> @@
  "Missing required sheet ID" :> <<"M", "i", "s", "s", "i", "n", "g", " ", "r", "e", "q", "u", "i", "r", "e", "d", " ", "s", "h", "e", "e", "t", " ", "I", "D">> @@
  "Missing required model parameter" :> <<"M", "i", "s", "s", "i", "n", "g", " ", "r", "e", "q", "u", "i", "r", "e", "d", " ", "m", "o", "d", "e", "l", " ", "p", "a", "r", "a", "m", "e", "t", "e", "r">> @@
  "Missing required URL parameter" :> <<"M", "i", "s", "s", "i", "n", "g", " ", "r", "e", "q", "u", "i", "r", "e", "d", " ", "U", "R", "L", " ", "p", "a", "r", "a", "m", "e", "t", "e", "r">> @@
  "Connection refused" :> <<"C", "o", "n", "n", "e", "c", "t", "i", "o", "n", " ", "r", "e", "f", "u", "s", "e", "d">> @@
  "spreadsheet" :> <<"s", "p", "r", "e", "a", "d", "s", "h", "e", "e", "t">> @@
  "sheet" :> <<"s", "h", "e", "e", "t">> @@
  "model" :> <<"m", "o", "d", "e", "l">> @@
  "url" :> <<"u", "r", "l">> @@
  "unknown" :> <<"u", "n", "k", "n", "o", "w", "n">> @@
  "Sheet" :> <<"S", "h", "e", "e", "t">> @@
  "Webhook" :> <<"W", "e", "b", "h", "o", "o", "k">> @@
  "make" :> <<"m", "a", "k", "e">> @@
  "make.com" :> <<"m", "a", "k", "e", ".", "c", "o", "m">> @@
  "n8n" :> <<"n", "8", "n">> @@
  "google sheets" :> <<"g", "o", "o", "g", "l", "e", " ", "s", "h", "e", "e", "t", "s">> @@
  "Make.com" :> <<"M", "a", "k", "e", ".", "c", "o", "m">> @@
  "Google Sheets" :> <<"G", "o", "o", "g", "l", "e", " ", "S", "h", "e", "e", "t", "s">> @@
  "OpenAI" :> <<"O", "p", "e", "n", "A", "I">> @@
  "HTTP Request" :> <<"H", "T", "T", "P", " ", "R", "e", "q", "u", "e", "s", "t">> @@
  "openai over http" :> <<"o", "p", "e", "n", "a", "i", " ", "o", "v", "e", "r", " ", "h", "t", "t", "p">> @@
  "{}" :> <<"{", "}">> @@
  "[]" :> <<"[", "]">> @@
  "null" :> <<"n", "u", "l", "l">> @@
  "5" :> <<"5">> @@
  "\"abc\"" :> <<"\"", "a", "b", "c", "\"">> @@
  "NaN" :> <<"N", "a", "N">> @@
  "{\"flow\": [{\"id\": 1, \"module\": \"http:ActionSendData\", \"parameters\": {}}]}" :> <<"{", "\"", "f", "l", "o", "w", "\"", ":", " ", "[", "{", "\"", "i", "d", "\"", ":", " ", "1", ",", " ", "\"", "m", "o", "d", "u", "l", "e", "\"", ":", " ", "\"", "h", "t", "t", "p", ":", "A", "c", "t", "i", "o", "n", "S", "e", "n", "d", "D", "a", "t", "a", "\"", ",", " ", "\"", "p", "a", "r", "a", "m", "e", "t", "e", "r", "s", "\"", ":", " ", "{", "}", "}", "]", "}">> @@
  "Instagram Video Poster" :> <<"I", "n", "s", "t", "a", "g", "r", "a", "m", " ", "V", "i", "d", "e", "o", " ", "P", "o", "s", "t", "e", "r">> @@
  "Lead Capture Flow" :> <<"L", "e", "a", "d", " ", "C", "a", "p", "t", "u", "r", "e", " ", "F", "l", "o", "w">> @@
  "Email Follow-Up Sequence" :> <<"E", "m", "a", "i", "l", " ", "F", "o", "l", "l", "o", "w", "-", "U", "p", " ", "S", "e", "q", "u", "e", "n", "c", "e">> @@
  "E-commerce Order Processing" :> <<"E", "-", "c", "o", "m", "m", "e", "r", "c", "e", " ", "O", "r", "d", "e", "r", " ", "P", "r", "o", "c", "e", "s", "s", "i", "n", "g">> @@
  "Social Media Scheduler" :> <<"S", "o", "c", "i", "a", "l", " ", "M", "e", "d", "i", "a", " ", "S", "c", "h", "e", "d", "u", "l", "e", "r">> @@
  "use template:" :> <<"u", "s", "e", " ", "t", "e", "m", "p", "l", "a", "t", "e", ":">> @@
  "Use template: Lead Capture Flow" :> <<"U", "s", "e", " ", "t", "e", "m", "p", "l", "a", "t", "e", ":", " ", "L", "e", "a", "d", " ", "C", "a", "p", "t", "u", "r", "e", " ", "F", "l", "o", "w">> @@
  "Send daily reports to Slack" :> <<"S", "e", "n", "d", " ", "d", "a", "i", "l", "y", " ", "r", "e", "p", "o", "r", "t", "s", " ", "t", "o", " ", "S", "l", "a", "c", "k">> @@
  "flow" :> <<"f", "l", "o", "w">> @@
  "{invalid json}" :> <<"{", "i", "n", "v", "a", "l", "i", "d", " ", "j", "s", "o", "n", "}">> @@
  "Pro feature" :> <<"P", "r", "o", " ", "f", "e", "a", "t", "u", "r", "e">> @@
  "limit reached" :> <<"l", "i", "m", "i", "t", " ", "r", "e", "a", "c", "h", "e", "d">> @@
  "Automation limit reached. Please upgrade your subscription." :> <<"A", "u", "t", "o", "m", "a", "t", "i", "o", "n", " ", "l", "i", "m", "i", "t", " ", "r", "e", "a", "c", "h", "e", "d", ".", " ", "P", "l", "e", "a", "s", "e", " ", "u", "p", "g", "r", "a", "d", "e", " ", "y", "o", "u", "r", " ", "s", "u", "b", "s", "c", "r", "i", "p", "t", "i", "o", "n", ".">> @@
  "Blueprint conversion is a Pro feature. Please upgrade your subscription." :> <<"B", "l", "u", "e", "p", "r", "i", "n", "t", " ", "c", "o", "n", "v", "e", "r", "s", "i", "o", "n", " ", "i", "s", " ", "a", " ", "P", "r", "o", " ", "f", "e", "a", "t", "u", "r", "e", ".", " ", "P", "l", "e", "a", "s", "e", " ", "u", "p", "g", "r", "a", "d", "e", " ", "y", "o", "u", "r", " ", "s", "u", "b", "s", "c", "r", "i", "p", "t", "i", "o", "n", ".">> @@
  "Source and target platforms must be different" :> <<"S", "o", "u", "r", "c", "e", " ", "a", "n", "d", " ", "t", "a", "r", "g", "e", "t", " ", "p", "l", "a", "t", "f", "o", "r", "m", "s", " ", "m", "u", "s", "t", " ", "b", "e", " ", "d", "i", "f", "f", "e", "r", "e", "n", "t">> @@
  "Invalid JSON format in blueprint" :> <<"I", "n", "v", "a", "l", "i", "d", " ", "J", "S", "O", "N", " ", "f", "o", "r", "m", "a", "t", " ", "i", "n", " ", "b", "l", "u", "e", "p", "r", "i", "n", "t">> @@
  "Failed to convert blueprint" :> <<"F", "a", "i", "l", "e", "d", " ", "t", "o", " ", "c", "o", "n", "v", "e", "r", "t", " ", "b", "l", "u", "e", "p", "r", "i", "n", "t">> @@
  "User not found" :> <<"U", "s", "e", "r", " ", "n", "o", "t", " ", "f", "o", "u", "n", "d">> @@
  "Email already registered" :> <<"E", "m", "a", "i", "l", " ", "a", "l", "r", "e", "a", "d", "y", " ", "r", "e", "g", "i", "s", "t", "e", "r", "e", "d">> @@
  "{\"nodes\": [{\"name\": \"HTTP\", \"type\": \"n8n-nodes-base.httpRequest\", \"parameters\": {}}]}" :> <<"{", "\"", "n", "o", "d", "e", "s", "\"", ":", " ", "[", "{", "\"", "n", "a", "m", "e", "\"", ":", " ", "\"", "H", "T", "T", "P", "\"", ",", " ", "\"", "t", "y", "p", "e", "\"", ":", " ", "\"", "n", "8", "n", "-", "n", "o", "d", "e", "s", "-", "b", "a", "s", "e", ".", "h", "t", "t", "p", "R", "e", "q", "u", "e", "s", "t", "\"", ",", " ", "\"", "p", "a", "r", "a", "m", "e", "t", "e", "r", "s", "\"", ":", " ", "{", "}", "}", "]", "}">>

\* `sub in s` on the characters of two strings
ContainsCs(a, b) ==
  \E i \in 0 .. (Len(b) - Len(a)) : SubSeq(b, i + 1, i + Len(a)) = a

UpperOf == "a" :> "A" @@ "b" :> "B" @@ "c" :> "C" @@ "d" :> "D" @@ "e" :> "E"
        @@ "f" :> "F" @@ "g" :> "G" @@ "h" :> "H" @@ "i" :> "I" @@ "j" :> "J"
        @@ "k" :> "K" @@ "l" :> "L" @@ "m" :> "M" @@ "n" :> "N" @@ "o" :> "O"
        @@ "p" :> "P" @@ "q" :> "Q" @@ "r" :> "R" @@ "s" :> "S" @@ "t" :> "T"
        @@ "u" :> "U" @@ "v" :> "V" @@ "w" :> "W" @@ "x" :> "X" @@ "y" :> "Y"
        @@ "z" :> "Z"

UpperChar(c) == IF c \in DOMAIN UpperOf THEN UpperOf[c] ELSE c
LowerChar(c) == IF \E x \in DOMAIN UpperOf : UpperOf[x] = c
                THEN CHOOSE x \in DOMAIN UpperOf : UpperOf[x] = c
                ELSE c

\* the string with the given characters
RECURSIVE Join(_)
Join(cs) == IF cs = <<>> THEN "" ELSE Head(cs) \o Join(Tail(cs))

\* `sub in s`, s.upper(), s.lower(), s.lower().replace(" ", "-")
Contains(sub, s) == ContainsCs(Chars[sub], Chars[s])
Upper(s) == Join([i \in 1 .. Len(Chars[s]) |-> UpperChar(Chars[s][i])])
Lower(s) == Join([i \in 1 .. Len(Chars[s]) |-> LowerChar(Chars[s][i])])
LowerDashed(s) ==
  Join([i \in 1 .. Len(Chars[s]) |->
          IF LowerChar(Chars[s][i]) = " " THEN "-" ELSE LowerChar(Chars[s][i])])
\* `sub in s.lower()`
ContainsLower(sub, s) ==
  ContainsCs(Chars[sub], [i \in 1 .. Len(Chars[s]) |-> LowerChar(Chars[s][i])])

-----------------------------------------------------------------------------
(* Module Registry: the two static tables.  A dict literal is the list of  *)
(* its entries in insertion order.                                         *)

MAKE_TO_N8N_ITEMS == <<
  <<"google-sheets:WatchRows", "n8n-nodes-base.googleSheetsTrigger">>,
  <<"google-sheets:SearchRows", "n8n-nodes-base.googleSheets">>,
  <<"google-sheets:AddRow", "n8n-nodes-base.googleSheets">>,
  <<"google-sheets:UpdateRow", "n8n-nodes-base.googleSheets">>,
  <<"google-drive:WatchFiles", "n8n-nodes-base.googleDriveTrigger">>,
  <<"google-drive:UploadFile", "n8n-nodes-base.googleDrive">>,
  <<"openai:CreateChatCompletion", "n8n-nodes-base.openAi">>,
  <<"openai:CreateImage", "n8n-nodes-base.openAi">>,
  <<"openai:CreateCompletion", "n8n-nodes-base.openAi">>,
  <<"http:ActionSendData", "n8n-nodes-base.httpRequest">>,
  <<"http:ActionSendDataOAuth2", "n8n-nodes-base.httpRequest">>,
  <<"webhook:CustomWebHook", "n8n-nodes-base.webhook">>,
  <<"wordpress:CreatePost", "n8n-nodes-base.wordpress">>,
  <<"wordpress:UpdatePost", "n8n-nodes-base.wordpress">>,
  <<"wordpress:GetPost", "n8n-nodes-base.wordpress">>,
  <<"instagram:CreateMedia", "n8n-nodes-base.httpRequest">>,
  <<"facebook:CreatePost", "n8n-nodes-base.facebookGraphApi">>,
  <<"twitter:CreateTweet", "n8n-nodes-base.twitter">>,
  <<"youtube:UploadVideo", "n8n-nodes-base.youTube">>,
  <<"builtin:Sleep", "n8n-nodes-base.wait">>,
  <<"builtin:SetVariable", "n8n-nodes-base.set">>,
  <<"builtin:TextAggregator", "n8n-nodes-base.merge">>,
  <<"json:ParseJSON", "n8n-nodes-base.code">>,
  <<"email:ActionSendEmail", "n8n-nodes-base.emailSend">>,
  <<"gmail:ActionSendEmail", "n8n-nodes-base.gmail">>,
  <<"gmail:TriggerWatchEmails", "n8n-nodes-base.gmail">>,
  <<"hubspot:CreateContact", "n8n-nodes-base.hubspot">>,
  <<"hubspot:UpdateContact", "n8n-nodes-base.hubspot">>,
  <<"hubspot:SearchContacts", "n8n-nodes-base.hubspot">>
>>

N8N_TO_MAKE_UPDATE == <<
  <<"n8n-nodes-base.start", "webhook:CustomWebHook">>,
  <<"n8n-nodes-base.set", "builtin:SetVariable">>,
  <<"n8n-nodes-base.code", "json:ParseJSON">>,
  <<"n8n-nodes-base.if", "builtin:Router">>,
  <<"n8n-nodes-base.merge", "builtin:TextAggregator">>,
  <<"n8n-nodes-base.wait", "builtin:Sleep">>
>>

\* the dict built by inserting the entries in order: a later entry of a key
\* replaces the earlier one
RECURSIVE DictOf(_)
DictOf(items) ==
  IF items = <<>> THEN <<>>
  ELSE LET rest == DictOf(SubSeq(items, 1, Len(items) - 1))
           kv == items[Len(items)]
       IN [x \in (DOMAIN rest) \cup {kv[1]} |-> IF x = kv[1] THEN kv[2] ELSE rest[x]]

MAKE_TO_N8N_MAPPING == DictOf(MAKE_TO_N8N_ITEMS)

\* an inversion in which the first entry of an n8n identifier wins
N8N_TO_MAKE_FIRST_WINS ==
  DictOf([i \in 1 .. Len(MAKE_TO_N8N_ITEMS) |->
            <<MAKE_TO_N8N_ITEMS[Len(MAKE_TO_N8N_ITEMS) + 1 - i][2],
              MAKE_TO_N8N_ITEMS[Len(MAKE_TO_N8N_ITEMS) + 1 - i][1]>>]
         \o N8N_TO_MAKE_UPDATE)

\* {v: k for k, v in MAKE_TO_N8N_MAPPING.items()}, then .update({...})
N8N_TO_MAKE_MAPPING ==
  DictOf([i \in 1 .. Len(MAKE_TO_N8N_ITEMS) |->
            <<MAKE_TO_N8N_ITEMS[i][2], MAKE_TO_N8N_ITEMS[i][1]>>]
         \o N8N_TO_MAKE_UPDATE)

\* the key of the node list in a blueprint of platform p
NodesKey(p) == IF p = "make" THEN "flow" ELSE "nodes"

-----------------------------------------------------------------------------
(* WorkflowConverter.                                                      *)

\* ConversionResult(success, converted_json, warnings, fallback_modules, comments)
ConversionResult(success, converted_json, warnings, fallback_modules, comments) ==
  [success |-> success, converted_json |-> converted_json, warnings |-> warnings,
   fallback_modules |-> fallback_modules, comments |-> comments]

\* the except branch without the exception text
ConversionFailedSilently(e) ==
  ConversionResult(FALSE, PyStr(""), <<"Conversion failed">>, <<>>, <<>>)

\* the except branch returning the text of an empty object
ConversionFailedEmptyObject(e) ==
  ConversionResult(FALSE, JsonDumps(EmptyDict), <<"Conversion failed: " \o e.msg>>,
                   <<>>, <<>>)

\* the except branch of both conversions
ConversionFailed(e) ==
  ConversionResult(FALSE, PyStr(""), <<"Conversion failed: " \o e.msg>>, <<>>, <<>>)

\* the lookup made in the table of the other direction
LookupMakeInReverseTable(module_name) ==
  IF module_name.t = "str" /\ module_name.s \in DOMAIN N8N_TO_MAKE_MAPPING
  THEN PyStr(N8N_TO_MAKE_MAPPING[module_name.s])
  ELSE PyNone

\* self.make_to_n8n.get(module_name), for a hashable module_name
LookupMakeToN8n(module_name) ==
  IF module_name.t = "str" /\ module_name.s \in DOMAIN MAKE_TO_N8N_MAPPING
  THEN PyStr(MAKE_TO_N8N_MAPPING[module_name.s])
  ELSE PyNone

\* self.n8n_to_make.get(node_type), for a hashable node_type
LookupN8nToMake(node_type) ==
  IF node_type.t = "str" /\ node_type.s \in DOMAIN N8N_TO_MAKE_MAPPING
  THEN PyStr(N8N_TO_MAKE_MAPPING[node_type.s])
  ELSE PyNone

\* `key in params` is defined on a dict; the other parameter values of the
\* model (None, int) are no containers
HasKey(params, key) == key \in DOMAIN params.d

\* a translation that copies the parameter map and leaves the data-mapping out
ConvertMakeParamsOnly(module_name, params, mapper) ==
  IF module_name.t # "str" THEN NotContainer(module_name)
  ELSE IF params.t # "dict" THEN NotIterable(params)
  ELSE IF mapper.t # "dict" THEN NotIterable(mapper)
  ELSE Update(EmptyDict, params)

\* _convert_make_params_to_n8n(module_name, params, mapper)
ConvertMakeParamsToN8n(module_name, params, mapper) ==
  IF module_name.t # "str" THEN NotContainer(module_name)
  ELSE IF Contains("google-sheets", module_name.s) THEN
    IF params.t # "dict" THEN NotContainer(params)
    ELSE LET c1 == IF HasKey(params, "spreadsheetId")
                   THEN Put(EmptyDict, "sheetId", params.d["spreadsheetId"])
                   ELSE EmptyDict
         IN IF HasKey(params, "worksheetId") THEN Put(c1, "range", PyStr("A:Z")) ELSE c1
  ELSE IF Contains("openai", module_name.s) THEN
    IF params.t # "dict" THEN NotContainer(params)
    ELSE IF mapper.t # "dict" THEN NotContainer(mapper)
    ELSE LET c1 == IF HasKey(params, "model")
                   THEN Put(EmptyDict, "model", params.d["model"]) ELSE EmptyDict
             c2 == IF HasKey(params, "max_tokens")
                   THEN Put(c1, "maxTokens", params.d["max_tokens"]) ELSE c1
         IN IF HasKey(mapper, "messages")
            THEN Put(c2, "messages", PyDict("values" :> mapper.d["messages"]))
            ELSE c2
  ELSE IF Contains("http", module_name.s) THEN
    IF mapper.t # "dict" THEN NotContainer(mapper)
    ELSE IF params.t # "dict" THEN NotContainer(params)
    ELSE LET c1 == IF HasKey(mapper, "url")
                   THEN Put(EmptyDict, "url", mapper.d["url"]) ELSE EmptyDict
         IN IF ~HasKey(params, "method") THEN c1
            ELSE IF params.d["method"].t # "str" THEN AttrError(params.d["method"], "upper")
            ELSE Put(c1, "method", PyStr(Upper(params.d["method"].s)))
  ELSE
    IF params.t # "dict" THEN NotIterable(params)
    ELSE IF mapper.t # "dict" THEN NotIterable(mapper)
    ELSE Update(Update(EmptyDict, params), mapper)

\* _convert_n8n_params_to_make(node_type, params)
ConvertN8nParamsToMake(node_type, params) ==
  IF node_type.t # "str" THEN NotContainer(node_type)
  ELSE IF Contains("googleSheets", node_type.s) THEN
    IF params.t # "dict" THEN NotContainer(params)
    ELSE LET c1 == IF HasKey(params, "sheetId")
                   THEN Put(EmptyDict, "spreadsheetId", params.d["sheetId"])
                   ELSE EmptyDict
         IN IF HasKey(params, "range") THEN Put(c1, "worksheetId", PyStr("gid=0")) ELSE c1
  ELSE IF Contains("openAi", node_type.s) THEN
    IF params.t # "dict" THEN NotContainer(params)
    ELSE LET c1 == IF HasKey(params, "model")
                   THEN Put(EmptyDict, "model", params.d["model"]) ELSE EmptyDict
         IN IF HasKey(params, "maxTokens")
            THEN Put(c1, "max_tokens", params.d["maxTokens"]) ELSE c1
  ELSE IF Contains("httpRequest", node_type.s) THEN
    IF params.t # "dict" THEN NotContainer(params)
    ELSE LET c1 == IF HasKey(params, "url")
                   THEN Put(EmptyDict, "url", params.d["url"]) ELSE EmptyDict
         IN IF ~HasKey(params, "method") THEN c1
            ELSE IF params.d["method"].t # "str" THEN AttrError(params.d["method"], "lower")
            ELSE Put(c1, "method", PyStr(Lower(params.d["method"].s)))
  ELSE
    IF params.t # "dict" THEN NotIterable(params)
    ELSE Update(EmptyDict, params)

\* a credentials test that also asks for credentials on HTTP request nodes
RequiresCredentialsOrHttp(node_type) ==
  node_type \in {"n8n-nodes-base.googleSheets", "n8n-nodes-base.googleSheetsTrigger",
                 "n8n-nodes-base.openAi", "n8n-nodes-base.wordpress",
                 "n8n-nodes-base.gmail", "n8n-nodes-base.httpRequest"}

\* _requires_credentials(node_type)
RequiresCredentials(node_type) ==
  node_type \in {"n8n-nodes-base.googleSheets", "n8n-nodes-base.googleSheetsTrigger",
                 "n8n-nodes-base.openAi", "n8n-nodes-base.wordpress",
                 "n8n-nodes-base.gmail"}

Credential(key, id, name) ==
  PyDict(key :> PyDict("id" :> PyStr(id) @@ "name" :> PyStr(name)))

\* _get_n8n_credentials(node_type)
GetN8nCredentials(node_type) ==
  CASE node_type = "n8n-nodes-base.googleSheets" ->
         Credential("googleSheetsOAuth2Api", "google_sheets", "Google Sheets")
    [] node_type = "n8n-nodes-base.googleSheetsTrigger" ->
         Credential("googleSheetsOAuth2Api", "google_sheets", "Google Sheets")
    [] node_type = "n8n-nodes-base.openAi" -> Credential("openAiApi", "openai", "OpenAI")
    [] node_type = "n8n-nodes-base.wordpress" ->
         Credential("wordpressApi", "wordpress", "WordPress")
    [] node_type = "n8n-nodes-base.gmail" -> Credential("gmailOAuth2", "gmail", "Gmail")
    [] OTHER -> EmptyDict

\* a fallback to the webhook node
N8N_FALLBACK_WEBHOOK == "n8n-nodes-base.webhook"

\* the fallback identifiers of the two directions
N8N_FALLBACK == "n8n-nodes-base.httpRequest"
MAKE_FALLBACK == "http:ActionSendData"

\* the body of the loop of convert_make_to_n8n for the module at index i (0-based)
MakeModuleToNode(module, i) ==
  IF module.t # "dict" THEN AttrError(module, "get")
  ELSE
    LET module_id == Get(module, "id", PyInt(i + 1))
        module_name == Get(module, "module", PyStr(""))
        module_params == Get(module, "parameters", EmptyDict)
        module_mapper == Get(module, "mapper", EmptyDict)
    IN IF ~Hashable(module_name) THEN Unhashable(module_name)
       ELSE
         LET found == LookupMakeToN8n(module_name)
             fallback == ~Truthy(found)
             n8n_node_type == IF fallback THEN N8N_FALLBACK ELSE found.s
             node_params == ConvertMakeParamsToN8n(module_name, module_params, module_mapper)
             node == PyDict("parameters" :> node_params
                         @@ "name" :> PyStr("Step " \o Str(module_id))
                         @@ "type" :> PyStr(n8n_node_type)
                         @@ "typeVersion" :> PyInt(1)
                         @@ "position" :> PyList(<<PyInt(240 + i * 220), PyInt(300)>>))
         IN IF IsExc(node_params) THEN node_params
            ELSE [t |-> "step",
                  node |-> IF RequiresCredentials(n8n_node_type)
                           THEN Put(node, "credentials", GetN8nCredentials(n8n_node_type))
                           ELSE node,
                  fallback |-> fallback,
                  fallback_module |-> "Module '" \o Str(module_name)
                                        \o "' converted to HTTP Request",
                  warning |-> "No direct n8n equivalent for '" \o Str(module_name)
                                \o "', using HTTP Request",
                  key |-> Str(module_id),
                  name |-> "Step " \o Str(module_id)]

\* the appends without the warning
AddStepWithoutWarning(acc, r) ==
  [t |-> "acc",
   nodes |-> Append(acc.nodes, r.node),
   warnings |-> acc.warnings,
   fallback_modules |-> IF r.fallback THEN Append(acc.fallback_modules, r.fallback_module)
                        ELSE acc.fallback_modules,
   node_positions |-> acc.node_positions]

\* the appends that skip a node whose name was emitted before
AddStepSkippingRepeatedName(acc, r) ==
  IF "name" \in DOMAIN r.node.d
     /\ \E j \in 1 .. Len(acc.nodes) : acc.nodes[j].d["name"] = r.node.d["name"]
  THEN acc
  ELSE [t |-> "acc",
        nodes |-> Append(acc.nodes, r.node),
        warnings |-> IF r.fallback THEN Append(acc.warnings, r.warning) ELSE acc.warnings,
        fallback_modules |-> IF r.fallback
                             THEN Append(acc.fallback_modules, r.fallback_module)
                             ELSE acc.fallback_modules,
        node_positions |-> acc.node_positions]

\* the appends of one iteration: the node, and the warning and the
\* fallback_modules entry if the identifier was not found
AddStep(acc, r) ==
  [t |-> "acc",
   nodes |-> Append(acc.nodes, r.node),
   warnings |-> IF r.fallback THEN Append(acc.warnings, r.warning) ELSE acc.warnings,
   fallback_modules |-> IF r.fallback THEN Append(acc.fallback_modules, r.fallback_module)
                        ELSE acc.fallback_modules,
   node_positions |-> acc.node_positions]

\* node_positions[str(module_id)] = f"Step {module_id}"
SetPosition(acc, r) ==
  [acc EXCEPT !.node_positions =
     [k \in (DOMAIN acc.node_positions) \cup {r.key} |->
        IF k = r.key THEN r.name ELSE acc.node_positions[k]]]

\* the loop `for i, module in enumerate(flow)` from index i on; acc holds
\* nodes, warnings, fallback_modules and node_positions
RECURSIVE MakeLoop(_, _, _)
MakeLoop(flow, i, acc) ==
  IF i = Len(flow) THEN acc
  ELSE LET r == MakeModuleToNode(flow[i + 1], i)
       IN IF IsExc(r) THEN r
          ELSE MakeLoop(flow, i + 1, SetPosition(AddStep(acc, r), r))

EmptyAcc == [t |-> "acc", nodes |-> <<>>, warnings |-> <<>>, fallback_modules |-> <<>>,
             node_positions |-> <<>>]

\* node_positions.get(key)
PositionOf(node_positions, key) ==
  IF key \in DOMAIN node_positions THEN PyStr(node_positions[key]) ELSE PyNone

\* _convert_make_connections_to_n8n(flow, node_positions), from index i on
RECURSIVE ConnectionsFrom(_, _, _, _)
ConnectionsFrom(flow, node_positions, i, connections) ==
  IF i >= Len(flow) THEN connections
  ELSE IF i < Len(flow) - 1 THEN
    LET current_name == PositionOf(node_positions, Str(Get(flow[i + 1], "id", PyInt(i + 1))))
        next_name == PositionOf(node_positions, Str(Get(flow[i + 2], "id", PyInt(i + 2))))
    IN ConnectionsFrom(flow, node_positions, i + 1,
         IF Truthy(current_name) /\ Truthy(next_name)
         THEN Put(connections, current_name.s,
                  PyDict("main" :> PyList(<<PyList(<<next_name>>)>>)))
         ELSE connections)
  ELSE ConnectionsFrom(flow, node_positions, i + 1, connections)

ConvertMakeConnectionsToN8n(flow, node_positions) ==
  ConnectionsFrom(flow, node_positions, 0, EmptyDict)

\* convert_make_to_n8n(make_json)
ConvertMakeToN8nResult(make_json) ==
  IF make_json.t # "dict" THEN ConversionFailed(AttrError(make_json, "get"))
  ELSE
    LET scenario_name == Get(make_json, "name", PyStr("Converted Workflow"))
        flow == Get(make_json, "flow", EmptyList)
    IN IF flow.t # "list" THEN ConversionFailed(NotIterable(flow))
       ELSE
         LET acc == MakeLoop(flow.l, 0, EmptyAcc)
         IN IF IsExc(acc) THEN ConversionFailed(acc)
            ELSE IF scenario_name.t # "str"
            THEN ConversionFailed(AttrError(scenario_name, "lower"))
            ELSE
              LET n8n_workflow ==
                    PyDict("name" :> scenario_name
                        @@ "nodes" :> PyList(acc.nodes)
                        @@ "connections" :>
                             ConvertMakeConnectionsToN8n(flow.l, acc.node_positions)
                        @@ "active" :> PyBool(FALSE)
                        @@ "settings" :> PyDict("executionOrder" :> PyStr("v1"))
                        @@ "versionId" :> PyStr("1")
                        @@ "meta" :> PyDict("templateCredsSetupCompleted" :> PyBool(FALSE))
                        @@ "id" :> PyStr(LowerDashed(scenario_name.s)))
              IN ConversionResult(TRUE, JsonDumps(n8n_workflow), acc.warnings,
                                  acc.fallback_modules,
                                  <<"Converted from Make.com scenario">>
                                    \o acc.fallback_modules)

\* a 0-based id
ModuleIdZeroBased(i) == i

\* "id": i + 1
ModuleIdAt(i) == i + 1

\* the body of the loop of convert_n8n_to_make for the node at index i (0-based)
N8nNodeToModule(node, i) ==
  IF node.t # "dict" THEN AttrError(node, "get")
  ELSE
    LET node_type == Get(node, "type", PyStr(""))
        node_name == Get(node, "name", PyStr("Node " \o ToString(i)))
        node_params == Get(node, "parameters", EmptyDict)
    IN IF ~Hashable(node_type) THEN Unhashable(node_type)
       ELSE
         LET found == LookupN8nToMake(node_type)
             fallback == ~Truthy(found)
             make_module == IF fallback THEN MAKE_FALLBACK ELSE found.s
             make_params == ConvertN8nParamsToMake(node_type, node_params)
         IN IF IsExc(make_params) THEN make_params
            ELSE IF ~Hashable(node_name) THEN Unhashable(node_name)
            ELSE [t |-> "step",
                  node |-> PyDict("id" :> PyInt(ModuleIdAt(i))
                               @@ "module" :> PyStr(make_module)
                               @@ "version" :> PyInt(1)
                               @@ "parameters" :> make_params
                               @@ "mapper" :> EmptyDict
                               @@ "metadata" :>
                                    PyDict("designer" :>
                                      PyDict("x" :> PyInt(i * 300) @@ "y" :> PyInt(0)))),
                  fallback |-> fallback,
                  fallback_module |-> "Node '" \o Str(node_type)
                                        \o "' converted to HTTP module",
                  warning |-> "No direct Make.com equivalent for '" \o Str(node_type)
                                \o "', using HTTP module"]

\* the loop `for i, node in enumerate(nodes)` from index i on
RECURSIVE N8nLoop(_, _, _)
N8nLoop(nodes, i, acc) ==
  IF i = Len(nodes) THEN acc
  ELSE LET r == N8nNodeToModule(nodes[i + 1], i)
       IN IF IsExc(r) THEN r
          ELSE N8nLoop(nodes, i + 1, AddStep(acc, r))

\* convert_n8n_to_make(n8n_json)
ConvertN8nToMakeResult(n8n_json) ==
  IF n8n_json.t # "dict" THEN ConversionFailed(AttrError(n8n_json, "get"))
  ELSE
    LET workflow_name == Get(n8n_json, "name", PyStr("Converted Scenario"))
        nodes == Get(n8n_json, "nodes", EmptyList)
    IN IF nodes.t # "list" THEN ConversionFailed(NotIterable(nodes))
       ELSE
         LET acc == N8nLoop(nodes.l, 0, EmptyAcc)
         IN IF IsExc(acc) THEN ConversionFailed(acc)
            ELSE
              LET make_scenario ==
                    PyDict("name" :> workflow_name
                        @@ "flow" :> PyList(acc.nodes)
                        @@ "metadata" :>
                             PyDict("instant" :> PyBool(FALSE)
                                 @@ "version" :> PyInt(1)
                                 @@ "scenario" :>
                                      PyDict("roundtrips" :> PyInt(1)
                                          @@ "maxErrors" :> PyInt(3)
                                          @@ "autoCommit" :> PyBool(TRUE)
                                          @@ "sequential" :> PyBool(FALSE))
                                 @@ "designer" :> PyDict("orphans" :> EmptyList)
                                 @@ "zone" :> PyStr("eu1.make.com")))
              IN ConversionResult(TRUE, JsonDumps(make_scenario), acc.warnings,
                                  acc.fallback_modules,
                                  <<"Converted from n8n workflow">> \o acc.fallback_modules)

-----------------------------------------------------------------------------
(* WorkflowDebugger.                                                       *)

PARAMETER_MISSING == "parameter_missing"
CONNECTION_ERROR == "connection_error"

\* WorkflowError(error_type, module_id, module_name, description, suggested_fix, severity)
WorkflowError(error_type, module_id, module_name, description, suggested_fix, severity) ==
  [error_type |-> error_type, module_id |-> module_id, module_name |-> module_name,
   description |-> description, suggested_fix |-> suggested_fix, severity |-> severity]

\* `sub in v` for a string sub and any value v
In(sub, v) ==
  CASE v.t = "str" -> Contains(sub, v.s)
    [] v.t = "list" -> PyStr(sub) \in {v.l[i] : i \in DOMAIN v.l}
    [] v.t = "dict" -> sub \in DOMAIN v.d
    [] OTHER -> FALSE

IsContainer(v) == v.t \in {"str", "list", "dict"}

\* the list of the findings found so far, or the exception raised
ErrorList(l) == [t |-> "errors", l |-> l]

\* the body of the loop of _analyze_make_workflow: the findings of one module
AnalyzeMakeModule(module) ==
  IF module.t # "dict" THEN AttrError(module, "get")
  ELSE
    LET module_id == PyStr(Str(Get(module, "id", PyStr("unknown"))))
        module_name == Get(module, "module", PyStr(""))
        parameters == Get(module, "parameters", EmptyDict)
        mapper == Get(module, "mapper", EmptyDict)
    IN IF ~IsContainer(module_name) THEN NotContainer(module_name)
       ELSE IF In("google-sheets", module_name) THEN
         IF parameters.t # "dict" THEN AttrError(parameters, "get")
         ELSE IF ~Truthy(Get(parameters, "spreadsheetId", PyNone))
         THEN ErrorList(<<WorkflowError(PARAMETER_MISSING, module_id, module_name,
                 "Missing required spreadsheet ID",
                 "Add spreadsheet ID: {{connection.drive.spreadsheetId}}", "critical")>>)
         ELSE ErrorList(<<>>)
       ELSE IF In("openai", module_name) THEN
         IF parameters.t # "dict" THEN AttrError(parameters, "get")
         ELSE IF ~Truthy(Get(parameters, "model", PyNone))
         THEN ErrorList(<<WorkflowError(PARAMETER_MISSING, module_id, module_name,
                 "Missing required model parameter",
                 "Add model parameter: 'gpt-4' or 'gpt-3.5-turbo'", "critical")>>)
         ELSE ErrorList(<<>>)
       ELSE IF In("http", module_name) THEN
         IF mapper.t # "dict" THEN AttrError(mapper, "get")
         ELSE IF Truthy(Get(mapper, "url", PyNone)) THEN ErrorList(<<>>)
         ELSE IF parameters.t # "dict" THEN AttrError(parameters, "get")
         ELSE IF ~Truthy(Get(parameters, "url", PyNone))
         THEN ErrorList(<<WorkflowError(PARAMETER_MISSING, module_id, module_name,
                 "Missing required URL parameter",
                 "Add URL in mapper or parameters", "critical")>>)
         ELSE ErrorList(<<>>)
       ELSE ErrorList(<<>>)

\* the body of the loop of _analyze_n8n_workflow: the findings of one node
AnalyzeN8nNode(node) ==
  IF node.t # "dict" THEN AttrError(node, "get")
  ELSE
    LET node_name == Get(node, "name", PyStr("unknown"))
        node_type == Get(node, "type", PyStr(""))
        parameters == Get(node, "parameters", EmptyDict)
    IN IF ~IsContainer(node_type) THEN NotContainer(node_type)
       ELSE IF In("googleSheets", node_type) THEN
         IF parameters.t # "dict" THEN AttrError(parameters, "get")
         ELSE IF ~Truthy(Get(parameters, "sheetId", PyNone))
         THEN ErrorList(<<WorkflowError(PARAMETER_MISSING, node_name, node_type,
                 "Missing required sheet ID",
                 "Add sheetId parameter with spreadsheet ID", "critical")>>)
         ELSE ErrorList(<<>>)
       ELSE IF In("openAi", node_type) THEN
         IF parameters.t # "dict" THEN AttrError(parameters, "get")
         ELSE IF ~Truthy(Get(parameters, "model", PyNone))
         THEN ErrorList(<<WorkflowError(PARAMETER_MISSING, node_name, node_type,
                 "Missing required model parameter",
                 "Add model parameter: 'gpt-4' or 'gpt-3.5-turbo'", "critical")>>)
         ELSE ErrorList(<<>>)
       ELSE IF In("httpRequest", node_type) THEN
         IF parameters.t # "dict" THEN AttrError(parameters, "get")
         ELSE IF ~Truthy(Get(parameters, "url", PyNone))
         THEN ErrorList(<<WorkflowError(PARAMETER_MISSING, node_name, node_type,
                 "Missing required URL parameter",
                 "Add url parameter with target endpoint", "critical")>>)
         ELSE ErrorList(<<>>)
       ELSE ErrorList(<<>>)

\* the loop over the nodes, from the first of `nodes` on
RECURSIVE AnalyzeLoop(_, _, _)
AnalyzeLoop(p, nodes, errors) ==
  IF nodes = <<>> THEN ErrorList(errors)
  ELSE LET r == IF p = "make" THEN AnalyzeMakeModule(Head(nodes))
                ELSE AnalyzeN8nNode(Head(nodes))
       IN IF IsExc(r) THEN r ELSE AnalyzeLoop(p, Tail(nodes), errors \o r.l)

\* _analyze_make_workflow(make_json)
AnalyzeMakeWorkflow(make_json) ==
  IF make_json.t # "dict" THEN AttrError(make_json, "get")
  ELSE LET flow == Get(make_json, "flow", EmptyList)
       IN IF flow.t # "list" THEN NotIterable(flow)
          ELSE AnalyzeLoop("make", flow.l, <<>>)

\* _analyze_n8n_workflow(n8n_json)
AnalyzeN8nWorkflow(n8n_json) ==
  IF n8n_json.t # "dict" THEN AttrError(n8n_json, "get")
  ELSE LET nodes == Get(n8n_json, "nodes", EmptyList)
       IN IF nodes.t # "list" THEN NotIterable(nodes)
          ELSE AnalyzeLoop("n8n", nodes.l, <<>>)

\* an analyze_workflow whose `errors` list outlives the call
AnalyzeWorkflowKeepingErrors(workflow_json, p) ==
  LET r == IF p = "make" THEN AnalyzeMakeWorkflow(workflow_json)
           ELSE AnalyzeN8nWorkflow(workflow_json)
      kept == IF analyses # <<>> /\ ~IsExc(analyses[Len(analyses)])
              THEN analyses[Len(analyses)].l ELSE <<>>
  IN IF IsExc(r) THEN r ELSE ErrorList(kept \o r.l)

\* analyze_workflow(workflow_json, platform): the findings, or the exception
\* that leaves the call
AnalyzeWorkflowResult(workflow_json, p) ==
  IF p = "make" THEN AnalyzeMakeWorkflow(workflow_json)
  ELSE AnalyzeN8nWorkflow(workflow_json)

\* module.setdefault(key, {})[field] = value
SetDefaultItem(module, key, field, value) ==
  IF key \notin DOMAIN module.d THEN Put(module, key, Put(EmptyDict, field, value))
  ELSE IF module.d[key].t = "dict" THEN Put(module, key, Put(module.d[key], field, value))
  ELSE Raise("TypeError",
             "'" \o TypeName(module.d[key]) \o "' object does not support item assignment")

\* a fix loop that does not test the reference
RefersToAny(p, node, error) == TRUE

\* does the finding refer to the node: the test of the two fix loops
RefersTo(p, node, error) ==
  IF p = "make" THEN PyStr(Str(Get(node, "id", PyNone))) = error.module_id
  ELSE Get(node, "name", PyNone) = error.module_id

\* the body of the inner loop of _fix_make_workflow: the module after the fix
FixMakeModule(module, error) ==
  IF module.t # "dict" THEN AttrError(module, "get")
  ELSE IF ~RefersTo("make", module, error) THEN module
  ELSE IF error.error_type # PARAMETER_MISSING THEN module
  ELSE IF ContainsLower("spreadsheet", error.description)
  THEN SetDefaultItem(module, "parameters", "spreadsheetId",
                      PyStr("{{connection.drive.spreadsheetId}}"))
  ELSE IF ContainsLower("model", error.description)
  THEN SetDefaultItem(module, "parameters", "model", PyStr("gpt-4"))
  ELSE IF ContainsLower("url", error.description)
  THEN SetDefaultItem(module, "mapper", "url", PyStr("https://api.example.com"))
  ELSE module

\* the body of the inner loop of _fix_n8n_workflow
FixN8nNode(node, error) ==
  IF node.t # "dict" THEN AttrError(node, "get")
  ELSE IF ~RefersTo("n8n", node, error) THEN node
  ELSE IF error.error_type # PARAMETER_MISSING THEN node
  ELSE IF ContainsLower("sheet", error.description)
  THEN SetDefaultItem(node, "parameters", "sheetId", PyStr("your-spreadsheet-id"))
  ELSE IF ContainsLower("model", error.description)
  THEN SetDefaultItem(node, "parameters", "model", PyStr("gpt-4"))
  ELSE IF ContainsLower("url", error.description)
  THEN SetDefaultItem(node, "parameters", "url", PyStr("https://api.example.com"))
  ELSE node

\* `for error in errors: for node in nodes:` from finding e and node m on;
\* the nodes are changed in place, so an exception keeps the changes made
RECURSIVE FixLoop(_, _, _, _, _)
FixLoop(p, nodes, errors, e, m) ==
  IF e > Len(errors) THEN [nodes |-> nodes, exc |-> PyNone]
  ELSE IF m > Len(nodes) THEN FixLoop(p, nodes, errors, e + 1, 1)
  ELSE LET r == IF p = "make" THEN FixMakeModule(nodes[m], errors[e])
                ELSE FixN8nNode(nodes[m], errors[e])
       IN IF IsExc(r) THEN [nodes |-> nodes, exc |-> r]
          ELSE FixLoop(p, [nodes EXCEPT ![m] = r], errors, e, m + 1)

\* a generate_fix that patches a deep copy: the caller's blueprint is left as
\* it was
GenerateFixOnDeepCopy(workflow_json, errors, p) ==
  IF workflow_json.t \notin {"dict", "list"}
  THEN [returned |-> AttrError(workflow_json, "copy"), argument |-> workflow_json]
  ELSE IF workflow_json.t = "list"
  THEN [returned |-> AttrError(workflow_json, "get"), argument |-> workflow_json]
  ELSE IF NodesKey(p) \notin DOMAIN workflow_json.d \/ errors = <<>>
  THEN [returned |-> workflow_json, argument |-> workflow_json]
  ELSE IF workflow_json.d[NodesKey(p)].t # "list"
  THEN [returned |-> NotIterable(workflow_json.d[NodesKey(p)]), argument |-> workflow_json]
  ELSE [returned |->
          IF IsExc(FixLoop(p, workflow_json.d[NodesKey(p)].l, errors, 1, 1).exc)
          THEN FixLoop(p, workflow_json.d[NodesKey(p)].l, errors, 1, 1).exc
          ELSE Put(workflow_json, NodesKey(p),
                   PyList(FixLoop(p, workflow_json.d[NodesKey(p)].l, errors, 1, 1).nodes)),
        argument |-> workflow_json]

\* generate_fix(workflow_json, errors, platform): `returned` is the patched
\* document or the exception, `argument` the caller's workflow_json after the
\* call.  The copy is shallow: the node list and its nodes are shared.
GenerateFixResult(workflow_json, errors, p) ==
  IF workflow_json.t \notin {"dict", "list"}
  THEN [returned |-> AttrError(workflow_json, "copy"), argument |-> workflow_json]
  ELSE IF workflow_json.t = "list"
  THEN [returned |-> AttrError(workflow_json, "get"), argument |-> workflow_json]
  ELSE IF NodesKey(p) \notin DOMAIN workflow_json.d \/ errors = <<>>
  THEN [returned |-> workflow_json, argument |-> workflow_json]
  ELSE LET nodes == workflow_json.d[NodesKey(p)]
       IN IF nodes.t # "list"
          THEN [returned |-> NotIterable(nodes), argument |-> workflow_json]
          ELSE LET r == FixLoop(p, nodes.l, errors, 1, 1)
                   patched == Put(workflow_json, NodesKey(p), PyList(r.nodes))
               IN [returned |-> IF IsExc(r.exc) THEN r.exc ELSE patched,
                   argument |-> patched]

-----------------------------------------------------------------------------
(* The blueprints handed to the converter: parsed JSON values.             *)

\* marks a key that the dict does not have
Absent == [t |-> "absent"]

\* the dict with the keys of fields whose value is not Absent
DictWith(fields) ==
  PyDict([k \in {x \in DOMAIN fields : fields[x] # Absent} |-> fields[k]])

MakeModule(id, module, parameters, mapper) ==
  DictWith("id" :> id @@ "module" :> module @@ "parameters" :> parameters
           @@ "mapper" :> mapper)

N8nNode(name, type, parameters) ==
  DictWith("name" :> name @@ "type" :> type @@ "parameters" :> parameters)

EmailParams ==
  PyDict("to" :> PyStr("{{1.data.email}}")
      @@ "subject" :> PyStr("Thank you for contacting us")
      @@ "text" :> PyStr("We received your message and will get back to you soon."))

\* the modules the longer Make flows are built from
CoreMakeModules == {
  MakeModule(PyInt(1), PyStr("webhook:webhook"), EmptyDict, Absent),
  MakeModule(PyInt(2), PyStr("email:send"), EmailParams, Absent),
  MakeModule(PyInt(1), PyStr("webhook:CustomWebHook"), EmptyDict, Absent),
  MakeModule(Absent, PyStr("google-sheets:AddRow"),
             PyDict("spreadsheetId" :> PyStr("abc") @@ "worksheetId" :> PyStr("Sheet1")),
             Absent),
  MakeModule(PyInt(2), PyStr("http:ActionSendData"), PyDict("method" :> PyStr("post")),
             PyDict("url" :> PyStr("https://example.com/hook"))),
  MakeModule(PyStr("1"), PyStr("email:send"), PyDict("method" :> PyInt(5)), Absent),
  MakeModule(PyInt(3), PyStr("openai:CreateChatCompletion"), PyNone, Absent),
  PyStr("webhook:webhook") }

MakeModuleNames ==
  {PyStr(MAKE_TO_N8N_ITEMS[i][1]) : i \in 1 .. Len(MAKE_TO_N8N_ITEMS)}
  \cup {PyStr("webhook:webhook"), PyStr("email:send"), PyStr("http:makeAnAPICall"),
        PyStr("google-sheets:GetRange"), PyStr("openai:CreateTranscription"),
        PyStr("builtin:Router"), Absent, PyNone, PyInt(7), EmptyList}

MakeParameterValues ==
  {Absent, PyNone, EmptyDict,
   PyDict("spreadsheetId" :> PyStr("abc")),
   PyDict("model" :> PyStr("gpt-4") @@ "max_tokens" :> PyInt(100)),
   PyDict("method" :> PyStr("Get") @@ "url" :> PyStr("https://example.com")),
   PyDict("method" :> PyNone)}

MakeMapperValues ==
  {Absent, PyNone,
   PyDict("url" :> PyStr("https://example.com/hook") @@ "messages" :> EmptyList)}

\* every single module of the model
WideMakeModules ==
  {MakeModule(id, m, p, mp) : id \in {Absent, PyInt(1)}, m \in MakeModuleNames,
                              p \in MakeParameterValues, mp \in MakeMapperValues}

\* the sequences over S of length at most n
SeqsUpTo(S, n) == UNION {[1 .. k -> S] : k \in 0 .. n}

MakeFlows ==
  {PyList(l) : l \in SeqsUpTo(CoreMakeModules, MaxNodes)}
  \cup {PyList(<<m>>) : m \in WideMakeModules}
  \cup {Absent, PyNone, PyInt(0)}

BlueprintNames == {Absent, PyStr("Test Workflow"), PyInt(5), PyNone}

\* values that are no JSON object
NonDictBlueprints == {EmptyList, PyNone, PyInt(0), PyStr("Test Workflow")}

MakeBlueprints ==
  {DictWith("name" :> n @@ "flow" :> f) : n \in BlueprintNames, f \in MakeFlows}
  \cup NonDictBlueprints

\* the nodes the longer n8n node lists are built from
CoreN8nNodes == {
  N8nNode(PyStr("Webhook"), PyStr("n8n-nodes-base.webhook"), Absent),
  N8nNode(PyStr("Send Email"), PyStr("n8n-nodes-base.emailSend"), EmailParams),
  N8nNode(PyStr("Webhook"), PyStr("n8n-nodes-base.slack"), PyDict("method" :> PyInt(5))),
  N8nNode(Absent, PyStr("n8n-nodes-base.googleSheets"),
          PyDict("sheetId" :> PyStr("abc") @@ "range" :> PyStr("A:Z"))),
  N8nNode(PyStr("HTTP"), PyStr("n8n-nodes-base.httpRequest"),
          PyDict("url" :> PyStr("https://example.com") @@ "method" :> PyStr("POST"))),
  N8nNode(EmptyList, PyStr("n8n-nodes-base.set"), EmptyDict),
  N8nNode(PyStr("AI"), PyStr("n8n-nodes-base.openAi"), PyNone),
  PyNone }

N8nNodeTypes ==
  {PyStr(k) : k \in DOMAIN N8N_TO_MAKE_MAPPING}
  \cup {PyStr("n8n-nodes-base.slack"), Absent, PyNone, PyInt(7), EmptyList}

N8nParameterValues ==
  {Absent, PyNone, EmptyDict,
   PyDict("sheetId" :> PyStr("abc")),
   PyDict("model" :> PyStr("gpt-4") @@ "maxTokens" :> PyInt(100)),
   PyDict("method" :> PyStr("Get") @@ "url" :> PyStr("https://example.com")),
   PyDict("method" :> PyNone)}

WideN8nNodes ==
  {N8nNode(n, ty, p) : n \in {Absent, PyStr("Webhook")}, ty \in N8nNodeTypes,
                       p \in N8nParameterValues}

N8nNodeLists ==
  {PyList(l) : l \in SeqsUpTo(CoreN8nNodes, MaxNodes)}
  \cup {PyList(<<m>>) : m \in WideN8nNodes}
  \cup {Absent, PyNone, PyInt(0)}

N8nBlueprints ==
  {DictWith("name" :> n @@ "nodes" :> f) : n \in BlueprintNames, f \in N8nNodeLists}
  \cup NonDictBlueprints

-----------------------------------------------------------------------------
(* The converter as a state machine: a caller converts a blueprint, and    *)
(* may convert the document it got back in the other direction.            *)

NoResult == [success |-> FALSE, none |-> TRUE]
NoFindings == [t |-> "none"]

\* the converter, resp. the debugger, is not used
ConvIdle ==
  /\ source = PyNone /\ platform = "make" /\ stage = "idle"
  /\ first = NoResult /\ second = NoResult
DbgIdle ==
  /\ workflow = PyNone /\ dplatform = "make" /\ dstage = "idle"
  /\ findings = NoFindings /\ fixed = PyNone /\ after = PyNone
  /\ analyses = <<>>
TrbIdle ==
  /\ conversation_state = <<>> /\ reply = PyNone /\ asked = PyNone
  /\ calls = 0 /\ threads = <<>> /\ started = <<>>
SrvIdle ==
  /\ users = <<>> /\ automations = <<>> /\ conversions = <<>>
  /\ requests = <<>> /\ served = 0

InitConv ==
  /\ \/ platform = "make" /\ source \in MakeBlueprints
     \/ platform = "n8n" /\ source \in N8nBlueprints
  /\ stage = "ready"
  /\ first = NoResult
  /\ second = NoResult
  /\ DbgIdle /\ TrbIdle /\ SrvIdle

\* WorkflowConverter.convert_make_to_n8n, on the blueprint or on the
\* document of a first n8n -> Make conversion
ConvertMakeToN8n ==
  \/ /\ stage = "ready" /\ platform = "make"
     /\ first' = ConvertMakeToN8nResult(source)
     /\ stage' = "converted"
     /\ UNCHANGED <<source, platform, second, dbgVars, trbVars, srvVars>>
  \/ /\ stage = "converted" /\ platform = "n8n" /\ first.success
     /\ second' = ConvertMakeToN8nResult(JsonLoads(first.converted_json))
     /\ stage' = "roundtrip"
     /\ UNCHANGED <<source, platform, first, dbgVars, trbVars, srvVars>>

\* WorkflowConverter.convert_n8n_to_make, likewise
ConvertN8nToMake ==
  \/ /\ stage = "ready" /\ platform = "n8n"
     /\ first' = ConvertN8nToMakeResult(source)
     /\ stage' = "converted"
     /\ UNCHANGED <<source, platform, second, dbgVars, trbVars, srvVars>>
  \/ /\ stage = "converted" /\ platform = "make" /\ first.success
     /\ second' = ConvertN8nToMakeResult(JsonLoads(first.converted_json))
     /\ stage' = "roundtrip"
     /\ UNCHANGED <<source, platform, first, dbgVars, trbVars, srvVars>>

NextConv == ConvertMakeToN8n \/ ConvertN8nToMake

SpecConv == InitConv /\ [][NextConv]_vars

-----------------------------------------------------------------------------
(* The blueprints and the findings handed to the debugger.                 *)

\* the modules the longer Make flows of the debugger are built from
DebugMakeModules == {
  MakeModule(PyInt(1), PyStr("google-sheets:AddRow"), EmptyDict, Absent),
  MakeModule(PyInt(1), PyStr("http:ActionSendData"), Absent, Absent),
  MakeModule(Absent, PyStr("openai:CreateChatCompletion"),
             PyDict("max_tokens" :> PyInt(100)), Absent),
  MakeModule(PyInt(2), PyStr("webhook:webhook"), EmptyDict, Absent),
  MakeModule(PyStr("unknown"), PyStr("email:send"), EmailParams, Absent),
  MakeModule(PyInt(2), PyStr("openai:CreateImage"), PyNone, Absent),
  MakeModule(PyInt(3), PyStr("http:makeAnAPICall"),
             PyDict("url" :> PyStr("https://example.com")), PyNone),
  PyNone }

DebugMakeFlows ==
  {PyList(l) : l \in SeqsUpTo(DebugMakeModules, MaxNodes)}
  \cup {PyList(<<m>>) : m \in WideMakeModules}
  \cup {Absent, PyNone, PyInt(0)}

DebugMakeBlueprints ==
  {DictWith("name" :> PyStr("Test Workflow") @@ "flow" :> f) : f \in DebugMakeFlows}
  \cup NonDictBlueprints

\* the nodes the longer n8n node lists of the debugger are built from
DebugN8nNodes == {
  N8nNode(PyStr("Sheet"), PyStr("n8n-nodes-base.googleSheets"), EmptyDict),
  N8nNode(PyStr("Sheet"), PyStr("n8n-nodes-base.httpRequest"), Absent),
  N8nNode(Absent, PyStr("n8n-nodes-base.openAi"), PyDict("maxTokens" :> PyInt(100))),
  N8nNode(PyStr("Webhook"), PyStr("n8n-nodes-base.webhook"), Absent),
  N8nNode(PyStr("unknown"), PyStr("n8n-nodes-base.emailSend"), EmailParams),
  N8nNode(PyStr("Webhook"), PyStr("n8n-nodes-base.openAi"), PyNone),
  N8nNode(EmptyList, PyStr("n8n-nodes-base.httpRequest"), EmptyDict),
  PyNone }

DebugN8nNodeLists ==
  {PyList(l) : l \in SeqsUpTo(DebugN8nNodes, MaxNodes)}
  \cup {PyList(<<m>>) : m \in WideN8nNodes}
  \cup {Absent, PyNone, PyInt(0)}

DebugN8nBlueprints ==
  {DictWith("name" :> PyStr("Test Workflow") @@ "nodes" :> f) : f \in DebugN8nNodeLists}
  \cup NonDictBlueprints

\* findings a caller may hand to generate_fix without having analysed
CallerFindings(p) == {
  WorkflowError(PARAMETER_MISSING, IF p = "make" THEN PyStr("1") ELSE PyStr("Sheet"),
                PyStr(""), "Missing required URL parameter", "", "critical"),
  WorkflowError(PARAMETER_MISSING, PyStr("unknown"), PyStr(""),
                "Missing required model parameter", "", "critical"),
  WorkflowError(PARAMETER_MISSING, IF p = "make" THEN PyStr("2") ELSE PyStr("Webhook"),
                PyStr(""), "Missing required spreadsheet ID", "", "critical"),
  WorkflowError(CONNECTION_ERROR, IF p = "make" THEN PyStr("1") ELSE PyStr("Sheet"),
                PyStr(""), "Connection refused", "", "warning") }

\* longest findings list a caller makes up
MaxFindings == 2

CallerFindingLists(p) == SeqsUpTo(CallerFindings(p), MaxFindings)

-----------------------------------------------------------------------------
(* The debugger as a state machine: a caller analyses a blueprint and has  *)
(* it fixed with the findings, or has it fixed with findings of its own.   *)

InitDbg ==
  /\ \/ dplatform = "make" /\ workflow \in DebugMakeBlueprints
     \/ dplatform = "n8n" /\ workflow \in DebugN8nBlueprints
  /\ dstage = "ready"
  /\ findings = NoFindings
  /\ fixed = PyNone
  /\ after = PyNone
  /\ analyses = <<>>
  /\ ConvIdle /\ TrbIdle /\ SrvIdle

\* WorkflowDebugger.analyze_workflow(workflow, dplatform): the first call, or
\* a later call on the same debugger with an equal blueprint value
AnalyzeWorkflow ==
  \/ /\ dstage = "ready"
     /\ findings' = AnalyzeWorkflowResult(workflow, dplatform)
     /\ analyses' = <<AnalyzeWorkflowResult(workflow, dplatform)>>
     /\ dstage' = "analyzed"
     /\ UNCHANGED <<workflow, dplatform, fixed, after, convVars, trbVars, srvVars>>
  \/ /\ dstage \in {"analyzed", "fixed"}
     /\ Len(analyses) < MaxAnalyses
     /\ analyses' = Append(analyses, AnalyzeWorkflowResult(workflow, dplatform))
     /\ UNCHANGED <<workflow, dplatform, dstage, findings, fixed, after, convVars, trbVars, srvVars>>

\* WorkflowDebugger.generate_fix(workflow, errors, dplatform)
GenerateFix ==
  \/ /\ dstage = "analyzed" /\ ~IsExc(findings)
     /\ fixed' = GenerateFixResult(workflow, findings.l, dplatform).returned
     /\ after' = GenerateFixResult(workflow, findings.l, dplatform).argument
     /\ dstage' = "fixed"
     /\ UNCHANGED <<workflow, dplatform, findings, analyses, convVars, trbVars, srvVars>>
  \/ /\ dstage = "ready"
     /\ \E fs \in CallerFindingLists(dplatform) :
          /\ findings' = ErrorList(fs)
          /\ fixed' = GenerateFixResult(workflow, fs, dplatform).returned
          /\ after' = GenerateFixResult(workflow, fs, dplatform).argument
     /\ dstage' = "fixed"
     /\ UNCHANGED <<workflow, dplatform, analyses, convVars, trbVars, srvVars>>

NextDbg == AnalyzeWorkflow \/ GenerateFix

SpecDbg == InitDbg /\ [][NextDbg]_vars

-----------------------------------------------------------------------------
(* WorkflowTroubleshooter.                                                 *)

\* the entry made for a session id that has none; the key input_data is
\* added by the get_input branch
NewSession ==
  [platform |-> PyNone, error_message |-> PyNone, failing_module |-> PyNone,
   workflow_json |-> PyNone, step |-> "initial", input_data |-> Absent]

\* a returned question
Question(question, options) == [question |-> question, options |-> options]

\* the character U+2022 that starts each error explanation
BULLET == "\\u2022"

\* f"{BULLET} {error.description} - {error.suggested_fix}" for each finding
ErrorExplanations(errors) ==
  [i \in 1 .. Len(errors) |->
     BULLET \o " " \o errors[i].description \o " - " \o errors[i].suggested_fix]

\* the entries of common_solutions, in insertion order
COMMON_SOLUTIONS == <<
  <<"google sheets", <<"Ensure spreadsheet is shared with the service account",
                       "Check that the spreadsheet ID is correct",
                       "Verify the worksheet name/range is valid">> >>,
  <<"openai", <<"Check your OpenAI API key is valid and has credits",
                "Verify the model name (use 'gpt-4' or 'gpt-3.5-turbo')",
                "Check if input text exceeds token limits">> >>,
  <<"http", <<"Verify the URL is accessible and correct",
              "Check authentication headers and API keys",
              "Ensure request format matches API requirements">> >> >>

GENERIC_SUGGESTIONS == <<
  "Check module configuration and required parameters",
  "Verify authentication and permissions",
  "Test with simpler input data">>

STRUCTURE_SUGGESTIONS == <<
  "Check your API credentials and permissions",
  "Verify input data format matches expected schema",
  "Test with simpler data first",
  "Check rate limits on external APIs">>

\* `for key, solutions in common_solutions.items(): if key in module_lower:
\* suggestions.extend(solutions)` from entry i on
RECURSIVE MatchedSolutions(_, _)
MatchedSolutions(module, i) ==
  IF i > Len(COMMON_SOLUTIONS) THEN <<>>
  ELSE (IF ContainsLower(COMMON_SOLUTIONS[i][1], module)
        THEN COMMON_SOLUTIONS[i][2] ELSE <<>>)
       \o MatchedSolutions(module, i + 1)

\* an analysis that gives the generic suggestions whatever the session holds
AnalyzeAndSuggestFixDefaultingLabel(state) ==
  [state |-> state,
   returned |-> [analysis |-> "Based on your description, here are the most likely solutions:",
                 suggestions |-> GENERIC_SUGGESTIONS, has_fix |-> FALSE]]

\* lines 639-650: the session state and the return once generate_fix has
\* returned or raised g for the findings
AfterFix(state, findings_, g) ==
  [state |-> [state EXCEPT !.workflow_json = g.argument],
   returned |->
     IF IsExc(g.returned) THEN g.returned
     ELSE [analysis |-> "Found " \o ToString(Len(findings_)) \o " issues in your workflow:",
           errors |-> ErrorExplanations(findings_),
           fixed_workflow |-> JsonDumps(g.returned),
           has_fix |-> TRUE]]

\* lines 635-661: the session state and the return once analyze_workflow has
\* returned or raised `errors`
AfterAnalysis(state, p, errors) ==
  IF IsExc(errors) THEN [state |-> state, returned |-> errors]
  ELSE IF errors.l # <<>>
  THEN AfterFix(state, errors.l, GenerateFixResult(state.workflow_json, errors.l, p))
  ELSE [state |-> state,
        returned |->
          [analysis |-> "Your workflow structure looks correct. The issue might be:",
           suggestions |-> STRUCTURE_SUGGESTIONS, has_fix |-> FALSE]]

\* lines 682-700: the suggestions found for the label, the generic ones if none
SuggestionsOr(suggestions) ==
  IF suggestions = <<>> THEN GENERIC_SUGGESTIONS ELSE suggestions

\* the platform that line 631 passes on
PlatformOf(state) == IF state.platform = PyStr("make") THEN "make" ELSE "n8n"

\* _analyze_and_suggest_fix(state): what it returns or raises, and the session
\* state after it (generate_fix patches the stored blueprint's nodes in place)
AnalyzeAndSuggestFix(state) ==
  IF Truthy(state.workflow_json)
  THEN AfterAnalysis(state, PlatformOf(state),
                     AnalyzeWorkflowResult(state.workflow_json, PlatformOf(state)))
  ELSE IF state.failing_module.t # "str"
  THEN [state |-> state, returned |-> AttrError(state.failing_module, "lower")]
  ELSE [state |-> state,
        returned |->
          [analysis |-> "Based on your description, here are the most likely solutions:",
           suggestions |-> SuggestionsOr(MatchedSolutions(state.failing_module.s, 1)),
           has_fix |-> FALSE]]

\* the return that follows the if/elif chain when no branch was taken
NEED_MORE == Question("I need more information to help you.", <<>>)

\* a get_error branch that returns to the platform question
GetErrorStartingOver(state, user_input) ==
  [state |-> [state EXCEPT !.error_message = user_input, !.step = "initial"],
   returned |-> Question("Which platform are you using?", <<"Make.com", "n8n">>)]

\* the branch `elif state["step"] == "get_error"`
GetErrorBranch(state, user_input) ==
  [state |-> [state EXCEPT !.error_message = user_input, !.step = "get_module"],
   returned |-> Question("Which module/node is failing? You can paste your workflow JSON here, or tell me the specific module name.",
                         <<"Google Sheets", "OpenAI", "HTTP Request", "WordPress", "Other">>)]

\* the branch `elif state["step"] == "get_module"`, where json.loads(user_input)
\* returned or raised `loaded`
GetModuleBranch(state, user_input, loaded) ==
  IF IsExc(loaded)
  THEN [state |-> [state EXCEPT !.failing_module = user_input, !.step = "get_input"],
        returned |-> Question("What input data triggered this error? Please share the specific values that caused the failure.",
                              <<"Empty data", "Wrong format", "Missing field",
                                "Invalid URL">>)]
  ELSE AnalyzeAndSuggestFix([state EXCEPT !.workflow_json = loaded, !.step = "analyze"])

\* an if/elif chain whose fall-through runs the analysis once more
StepBranchAnalysingAgain(state, step, user_input) ==
  CASE step = "initial" ->
         IF ContainsLower("make", user_input.s) \/ ContainsLower("make.com", user_input.s)
         THEN [state |-> [state EXCEPT !.platform = PyStr("make"), !.step = "get_error"],
               returned |-> Question("What error message are you seeing? Please copy and paste the exact error from Make.com.",
                                     <<"Connection error", "Module error", "Data error",
                                       "Authentication error">>)]
         ELSE IF ContainsLower("n8n", user_input.s)
         THEN [state |-> [state EXCEPT !.platform = PyStr("n8n"), !.step = "get_error"],
               returned |-> Question("What error message are you seeing? Please copy and paste the exact error from n8n.",
                                     <<"Node execution failed", "Connection error",
                                       "Credential error", "Workflow error">>)]
         ELSE [state |-> state,
               returned |-> Question("Which platform are you using?", <<"Make.com", "n8n">>)]
    [] step = "get_error" -> GetErrorBranch(state, user_input)
    [] step = "get_module" -> GetModuleBranch(state, user_input, JsonLoads(user_input))
    [] step = "get_input" ->
         AnalyzeAndSuggestFix([state EXCEPT !.input_data = user_input, !.step = "analyze"])
    [] OTHER -> AnalyzeAndSuggestFix(state)

\* the branch of ask_diagnostic_questions for the step value `step`, run on the
\* session state `state` with the message user_input
StepBranch(state, step, user_input) ==
  CASE step = "initial" ->
         IF ContainsLower("make", user_input.s) \/ ContainsLower("make.com", user_input.s)
         THEN [state |-> [state EXCEPT !.platform = PyStr("make"), !.step = "get_error"],
               returned |-> Question("What error message are you seeing? Please copy and paste the exact error from Make.com.",
                                     <<"Connection error", "Module error", "Data error",
                                       "Authentication error">>)]
         ELSE IF ContainsLower("n8n", user_input.s)
         THEN [state |-> [state EXCEPT !.platform = PyStr("n8n"), !.step = "get_error"],
               returned |-> Question("What error message are you seeing? Please copy and paste the exact error from n8n.",
                                     <<"Node execution failed", "Connection error",
                                       "Credential error", "Workflow error">>)]
         ELSE [state |-> state,
               returned |-> Question("Which platform are you using?", <<"Make.com", "n8n">>)]
    [] step = "get_error" -> GetErrorBranch(state, user_input)
    [] step = "get_module" -> GetModuleBranch(state, user_input, JsonLoads(user_input))
    [] step = "get_input" ->
         AnalyzeAndSuggestFix([state EXCEPT !.input_data = user_input, !.step = "analyze"])
    [] OTHER -> [state |-> state, returned |-> NEED_MORE]

\* `if session_id not in self.conversation_state: ...`
WithSession(cs, session_id) ==
  IF session_id \in DOMAIN cs THEN cs ELSE cs @@ (session_id :> NewSession)

\* a write that reaches the entry of every session
WithStateOfAll(cs, session_id, state) ==
  [s \in DOMAIN cs |-> state]

\* self.conversation_state with the entry of session_id replaced
WithState(cs, session_id, state) ==
  [s \in DOMAIN cs |-> IF s = session_id THEN state ELSE cs[s]]

\* the map and the return after the branch has returned or raised r
AfterBranch(cs, session_id, r) ==
  [conversation_state |-> WithState(cs, session_id, r.state), returned |-> r.returned]

\* lines 575-627 on the map that holds the session
CallResult(cs, session_id, user_input) ==
  AfterBranch(cs, session_id,
              StepBranch(cs[session_id], cs[session_id].step, user_input))

\* ask_diagnostic_questions(user_input, session_id) run alone: the map after
\* the call and what the call returns or raises
AskDiagnosticQuestionsResult(cs, user_input, session_id) ==
  CallResult(WithSession(cs, session_id), session_id, user_input)
-----------------------------------------------------------------------------
(* The troubleshooter as a state machine: callers send messages for their  *)
(* sessions, one call at a time.                                           *)

SessionIds == {"s1", "s2"}

\* what users type or click: platform names, the quick replies, free text
FreeTexts ==
  {PyStr("Make.com"), PyStr("n8n"), PyStr("Google Sheets"),
   PyStr("OpenAI"), PyStr("HTTP Request"), PyStr("openai over http")}

\* pasted texts that json.loads accepts
PastedTexts == {PyStr(s) : s \in DOMAIN JSON_TEXTS}

UserInputs == FreeTexts \cup PastedTexts

\* most calls made one after the other
MaxCalls == 4

NoThreads == <<>>

InitTrb ==
  /\ conversation_state = <<>>
  /\ reply = PyNone
  /\ asked = PyNone
  /\ calls = 0
  /\ threads = NoThreads
  /\ started = <<>>
  /\ ConvIdle /\ DbgIdle /\ SrvIdle

\* the call has ended with r: the map is updated, the return and the call's
\* arguments with the step it found are kept
Returns(session_id, user_input, r) ==
  /\ conversation_state' = r.conversation_state
  /\ reply' = r.returned
  /\ asked' = [session_id |-> session_id, user_input |-> user_input,
               step |-> WithSession(conversation_state, session_id)[session_id].step]

\* WorkflowTroubleshooter.ask_diagnostic_questions(user_input, session_id)
AskDiagnosticQuestions ==
  /\ threads = NoThreads
  /\ calls < MaxCalls
  /\ \E session_id \in SessionIds, user_input \in UserInputs :
       Returns(session_id, user_input,
               AskDiagnosticQuestionsResult(conversation_state, user_input, session_id))
  /\ calls' = calls + 1
  /\ UNCHANGED <<threads, started, convVars, dbgVars, srvVars>>

NextTrb == AskDiagnosticQuestions

SpecTrb == InitTrb /\ [][NextTrb]_vars

-----------------------------------------------------------------------------
(* Two threads of the host call ask_diagnostic_questions at the same time. *)
(* The method takes no lock: a thread can be preempted between any two of  *)
(* its reads and writes of the session state.  A thread's steps here are   *)
(* the lookup of the session entry, each test of the if/elif chain on      *)
(* state["step"], and the body of the branch it enters; the body is taken  *)
(* as one step, which leaves out interleavings but adds none.              *)

ThreadIds == {"t1", "t2"}

\* the messages of the parallel calls
ParallelInputs == {PyStr("Make.com"), PyStr("n8n"), PyStr("null")}

\* the step values that the if/elif chain tests, in its order
STEP_TESTS == <<"initial", "get_error", "get_module", "get_input">>

\* most calls made one after the other before the parallel ones
MaxStartCalls == 3

\* the session maps after at most k calls made one after the other for "s1"
RECURSIVE MapsAfter(_)
MapsAfter(k) ==
  IF k = 0 THEN {<<>>}
  ELSE MapsAfter(k - 1) \cup
       {AskDiagnosticQuestionsResult(cs, m, "s1").conversation_state :
          cs \in MapsAfter(k - 1), m \in ParallelInputs}

IdleThread ==
  [pc |-> "idle", session_id |-> "", user_input |-> PyNone, at |-> 0,
   returned |-> PyNone]

InitPar ==
  /\ conversation_state \in MapsAfter(MaxStartCalls)
  /\ started = conversation_state
  /\ threads = [t \in ThreadIds |-> IdleThread]
  /\ reply = PyNone
  /\ asked = PyNone
  /\ calls = 0
  /\ ConvIdle /\ DbgIdle /\ SrvIdle

\* thread t is handed a call
Receive(t) ==
  /\ threads[t].pc = "idle"
  /\ \E session_id \in SessionIds, user_input \in ParallelInputs :
       threads' = [threads EXCEPT ![t] = [IdleThread EXCEPT !.pc = "enter",
                                            !.session_id = session_id,
                                            !.user_input = user_input]]
  /\ UNCHANGED <<conversation_state, reply, asked, calls, started, convVars, dbgVars, srvVars>>

\* lines 566-575: make the session entry if there is none, take the entry
Enter(t) ==
  /\ threads[t].pc = "enter"
  /\ conversation_state' = WithSession(conversation_state, threads[t].session_id)
  /\ threads' = [threads EXCEPT ![t].pc = "test", ![t].at = 1]
  /\ UNCHANGED <<reply, asked, calls, started, convVars, dbgVars, srvVars>>

\* one test `state["step"] == ...` of the if/elif chain; after the last test
\* has failed the call returns the closing question
TestStep(t) ==
  /\ threads[t].pc = "test"
  /\ threads' =
       IF conversation_state[threads[t].session_id].step = STEP_TESTS[threads[t].at]
       THEN [threads EXCEPT ![t].pc = "branch"]
       ELSE IF threads[t].at < Len(STEP_TESTS)
       THEN [threads EXCEPT ![t].at = threads[t].at + 1]
       ELSE [threads EXCEPT ![t].pc = "done", ![t].returned = NEED_MORE]
  /\ UNCHANGED <<conversation_state, reply, asked, calls, started, convVars, dbgVars, srvVars>>

\* the branch of thread t has ended with r
BranchReturns(t, r) ==
  /\ conversation_state' = WithState(conversation_state, threads[t].session_id, r.state)
  /\ threads' = [threads EXCEPT ![t].pc = "done", ![t].returned = r.returned]

\* the body of the branch that the thread entered
RunBranch(t) ==
  /\ threads[t].pc = "branch"
  /\ BranchReturns(t, StepBranch(conversation_state[threads[t].session_id],
                                 STEP_TESTS[threads[t].at], threads[t].user_input))
  /\ UNCHANGED <<reply, asked, calls, started, convVars, dbgVars, srvVars>>

NextPar == \E t \in DOMAIN threads : Receive(t) \/ Enter(t) \/ TestStep(t) \/ RunBranch(t)

SpecPar == InitPar /\ [][NextPar]_vars
-----------------------------------------------------------------------------
(* The HTTP API (backend/server.py): registration, /generate-automation    *)
(* and /convert-blueprint.  The handlers are coroutines: a request gives   *)
(* way to other requests where it awaits the database or the generation    *)
(* service, so a request is a process with a position.  Request bodies are *)
(* values of the declared request models.                                  *)

\* SubscriptionTier
FREE == "free"
PRO == "pro"
CREATOR == "creator"

\* PlatformType
MAKE_COM == "Make.com"
N8N == "n8n"

\* get_tier_limits(tier)
GetTierLimits(tier) ==
  CASE tier = FREE -> 1
    [] tier = PRO -> 5
    [] tier = CREATOR -> 50

\* a db.users document
User(email, subscription_tier, automations_used, automations_limit) ==
  [email |-> email, subscription_tier |-> subscription_tier,
   automations_used |-> automations_used, automations_limit |-> automations_limit]

\* the keys of AUTOMATION_TEMPLATES in insertion order, and their ids
TEMPLATE_NAMES == <<"Instagram Video Poster", "Lead Capture Flow",
                    "Email Follow-Up Sequence", "E-commerce Order Processing",
                    "Social Media Scheduler">>
TEMPLATE_IDS == <<"template_001", "template_002", "template_003", "template_004",
                  "template_005">>

\* s.lower() and s.strip() on the characters of a string
LowerCs(cs) == [i \in 1 .. Len(cs) |-> LowerChar(cs[i])]
RECURSIVE StripCs(_)
StripCs(cs) ==
  IF cs = <<>> THEN cs
  ELSE IF Head(cs) = " " THEN StripCs(Tail(cs))
  ELSE IF cs[Len(cs)] = " " THEN StripCs(SubSeq(cs, 1, Len(cs) - 1))
  ELSE cs

\* s.startswith(prefix)
StartsWithCs(cs, prefix) ==
  Len(prefix) <= Len(cs) /\ SubSeq(cs, 1, Len(prefix)) = prefix

\* lines 1648-1650: the index of the first template from i on whose name
\* contains the lower-cased request or is contained in it, 0 if none
RECURSIVE DirectMatch(_, _)
DirectMatch(task_lower, i) ==
  IF i > Len(TEMPLATE_NAMES) THEN 0
  ELSE IF \/ ContainsCs(LowerCs(Chars[TEMPLATE_NAMES[i]]), task_lower)
          \/ ContainsCs(task_lower, LowerCs(Chars[TEMPLATE_NAMES[i]]))
  THEN i
  ELSE DirectMatch(task_lower, i + 1)

\* lines 1655-1657: the index of the first template from i on whose name is
\* contained in the text after the prefix, 0 if none
RECURSIVE PrefixMatch(_, _)
PrefixMatch(template_name, i) ==
  IF i > Len(TEMPLATE_NAMES) THEN 0
  ELSE IF ContainsCs(LowerCs(Chars[TEMPLATE_NAMES[i]]), LowerCs(template_name))
  THEN i
  ELSE PrefixMatch(template_name, i + 1)

\* lines 1652-1659, after the loop over the names has found nothing
AfterDirect(task_description, task_lower) ==
  IF StartsWithCs(task_lower, Chars["use template:"])
  THEN PrefixMatch(StripCs(SubSeq(Chars[task_description], 14,
                                  Len(Chars[task_description]))), 1)
  ELSE 0

\* the loop's result if it found a template, else what follows the loop
FoundOr(found, otherwise) == IF found # 0 THEN found ELSE otherwise

\* is_template_request(task_description): the index of the template found in
\* TEMPLATE_NAMES, 0 for (False, "")
IsTemplateRequest(task_description) ==
  FoundOr(DirectMatch(StripCs(LowerCs(Chars[task_description])), 1),
          AfterDirect(task_description, StripCs(LowerCs(Chars[task_description]))))

\* a generation that reports every automation as custom
CustomData(template) == [is_template |-> FALSE, template_id |-> PyNone]

\* lines 1904-1916 and 2253-2262: the two fields for the template found, or
\* for a custom automation
AutomationData(template) ==
  IF template # 0
  THEN [is_template |-> TRUE, template_id |-> PyStr(TEMPLATE_IDS[template])]
  ELSE [is_template |-> FALSE, template_id |-> PyNone]

\* generate_automation_with_ai(task_description, ...): the two fields of the
\* result that the handler branches on; the generated text itself is the
\* generation service's and is not modelled.  A custom request never raises:
\* every exception of the generation ends in the fallback automation.
GenerateAutomationWithAi(task_description) ==
  AutomationData(IsTemplateRequest(task_description))

\* raise HTTPException(status_code, detail)
HTTPException(status_code, detail) == [status_code |-> status_code, detail |-> detail]

\* a 200 response with its body
Ok(body) == [status_code |-> 200, body |-> body]

\* a slot that serves no request
NoRequest ==
  [endpoint |-> "none", pc |-> "idle", token |-> "", body |-> PyNone,
   current_user |-> PyNone, response |-> PyNone, invoked |-> FALSE]

\* a limit test that lets a user at the limit through
LimitExceeded(current_user) ==
  current_user.automations_used > current_user.automations_limit

\* current_user.automations_used >= current_user.automations_limit
LimitReached(current_user) ==
  current_user.automations_used >= current_user.automations_limit

\* a tier test that stops nobody
IsNoTier(current_user) == FALSE

\* current_user.subscription_tier == SubscriptionTier.FREE
IsFreeTier(current_user) == current_user.subscription_tier = FREE

\* the user document with the fields of the $inc update applied
IncAutomationsUsed(user) ==
  [user EXCEPT !.automations_used = user.automations_used + 1]
-----------------------------------------------------------------------------
(* The API as a state machine.                                             *)

RequestSlots == {1, 2}

\* most requests received
MaxRequests == 4

Emails == {"a@example.com"}

TaskDescriptions ==
  {"Send daily reports to Slack", "Use template: Lead Capture Flow", "flow"}

\* is_template_request and generate_automation_with_ai on the task
\* descriptions
IS_TEMPLATE_REQUEST == [d \in TaskDescriptions |-> IsTemplateRequest(d)]
GENERATED == [d \in TaskDescriptions |-> GenerateAutomationWithAi(d)]

\* blueprint_json texts: a JSON document, a text with a syntax error, and the
\* literal NaN
BlueprintTexts == {PyStr("{}"), PyStr("{invalid json}"), PyStr("NaN")}

\* the subject of a token whose user is not in db.users
UNKNOWN_USER == "u9"

Tokens == DOMAIN users \cup {UNKNOWN_USER}

Free(r) == requests[r].pc \in {"idle", "done"}

\* a request arrives at slot r
Accept(r, endpoint, token, body) ==
  /\ Free(r)
  /\ served < MaxRequests
  /\ requests' = [requests EXCEPT ![r] =
                    [NoRequest EXCEPT !.endpoint = endpoint, !.token = token,
                                      !.body = body,
                                      !.pc = IF endpoint = "register" THEN "check"
                                             ELSE "auth"]]
  /\ served' = served + 1
  /\ UNCHANGED <<users, automations, conversions>>

ReceiveRegister(r) ==
  /\ \E email \in Emails : Accept(r, "register", "", [email |-> email])
  /\ UNCHANGED <<convVars, dbgVars, trbVars>>

ReceiveGenerate(r) ==
  /\ \E token \in Tokens, d \in TaskDescriptions :
       Accept(r, "generate", token, [task_description |-> d])
  /\ UNCHANGED <<convVars, dbgVars, trbVars>>

ReceiveConvert(r) ==
  /\ \E token \in Tokens, text \in BlueprintTexts, target \in {MAKE_COM, N8N} :
       Accept(r, "convert", token,
               [blueprint_json |-> text, source_platform |-> MAKE_COM,
                target_platform |-> target])
  /\ UNCHANGED <<convVars, dbgVars, trbVars>>

\* the slot's request ends with the response
Respond(r, response) ==
  requests' = [requests EXCEPT ![r].pc = "done", ![r].response = response]

\* get_current_user: the user document of the token's subject, read now
GetCurrentUser(r) ==
  /\ requests[r].pc = "auth"
  /\ IF requests[r].token \notin DOMAIN users
     THEN Respond(r, HTTPException(401, "User not found"))
     ELSE requests' = [requests EXCEPT ![r].pc = "check",
                         ![r].current_user =
                            [id |-> requests[r].token] @@ users[requests[r].token]]
  /\ UNCHANGED <<users, automations, conversions, served, convVars, dbgVars, trbVars>>

\* register, up to the await of insert_one
RegisterCheck(r) ==
  /\ requests[r].pc = "check" /\ requests[r].endpoint = "register"
  /\ IF \E id \in DOMAIN users : users[id].email = requests[r].body.email
     THEN Respond(r, HTTPException(400, "Email already registered"))
     ELSE requests' = [requests EXCEPT ![r].pc = "creating"]
  /\ UNCHANGED <<users, automations, conversions, served, convVars, dbgVars, trbVars>>

\* register, from insert_one on
RegisterInsert(r) ==
  /\ requests[r].pc = "creating"
  /\ LET id == "u" \o ToString(Cardinality(DOMAIN users) + 1)
         user == User(requests[r].body.email, FREE, 0,
                      GetTierLimits(FREE))
     IN /\ users' = users @@ (id :> user)
        /\ Respond(r, Ok([access_token |-> id, user |-> [id |-> id] @@ user]))
  /\ UNCHANGED <<automations, conversions, served, convVars, dbgVars, trbVars>>

\* generate_automation, up to the await of the generation
GenerateCheck(r) ==
  /\ requests[r].pc = "check" /\ requests[r].endpoint = "generate"
  /\ IF /\ IS_TEMPLATE_REQUEST[requests[r].body.task_description] = 0
        /\ LimitReached(requests[r].current_user)
     THEN Respond(r, HTTPException(403,
                       "Automation limit reached. Please upgrade your subscription."))
     ELSE requests' = [requests EXCEPT ![r].pc = "generating", ![r].invoked = TRUE]
  /\ UNCHANGED <<users, automations, conversions, served, convVars, dbgVars, trbVars>>

\* generate_automation, from the return of the generation on: the record is
\* stored and, for a custom automation, the user's count is incremented in
\* the database
GenerateStore(r) ==
  /\ requests[r].pc = "generating"
  /\ LET automation_data == GENERATED[requests[r].body.task_description]
         automation == [user_id |-> requests[r].current_user.id,
                        task_description |-> requests[r].body.task_description,
                        is_template |-> automation_data.is_template,
                        template_id |-> automation_data.template_id]
         id == requests[r].current_user.id
     IN /\ automations' = Append(automations, automation)
        /\ users' = IF ~automation_data.is_template /\ id \in DOMAIN users
                    THEN [users EXCEPT ![id] = IncAutomationsUsed(users[id])]
                    ELSE users
        /\ Respond(r, Ok(automation))
  /\ UNCHANGED <<conversions, served, convVars, dbgVars, trbVars>>

\* convert_blueprint, up to the await of the conversion
ConvertCheck(r) ==
  /\ requests[r].pc = "check" /\ requests[r].endpoint = "convert"
  /\ IF IsFreeTier(requests[r].current_user)
     THEN Respond(r, HTTPException(403,
                       "Blueprint conversion is a Pro feature. Please upgrade your subscription."))
     ELSE IF requests[r].body.source_platform = requests[r].body.target_platform
     THEN Respond(r, HTTPException(400, "Source and target platforms must be different"))
     ELSE IF IsExc(JsonLoads(requests[r].body.blueprint_json))
     THEN Respond(r, HTTPException(400, "Invalid JSON format in blueprint"))
     ELSE requests' = [requests EXCEPT ![r].pc = "converting", ![r].invoked = TRUE]
  /\ UNCHANGED <<users, automations, conversions, served, convVars, dbgVars, trbVars>>

\* convert_blueprint, from the return of convert_blueprint_with_ai on
ConvertStore(r) ==
  /\ requests[r].pc = "converting"
  /\ LET conversion == [user_id |-> requests[r].current_user.id,
                        source_platform |-> requests[r].body.source_platform,
                        target_platform |-> requests[r].body.target_platform,
                        original_json |-> requests[r].body.blueprint_json]
     IN /\ conversions' = Append(conversions, conversion)
        /\ Respond(r, Ok(conversion))
  /\ UNCHANGED <<users, automations, served, convVars, dbgVars, trbVars>>

\* convert_blueprint_with_ai raised: its except branch answers 500 (the
\* detail without the text of the exception)
ConvertFail(r) ==
  /\ requests[r].pc = "converting"
  /\ Respond(r, HTTPException(500, "Failed to convert blueprint"))
  /\ UNCHANGED <<users, automations, conversions, served, convVars, dbgVars, trbVars>>

\* user documents that the store holds when the API starts: a paid user one
\* automation below the limit
PaidUsers == {"u0" :> User("p@example.com", PRO, GetTierLimits(PRO) - 1, GetTierLimits(PRO))}

InitGen ==
  /\ users \in {<<>>} \cup PaidUsers
  /\ automations = <<>>
  /\ conversions = <<>>
  /\ requests = [r \in RequestSlots |-> NoRequest]
  /\ served = 0
  /\ ConvIdle /\ DbgIdle /\ TrbIdle

NextGen ==
  \E r \in DOMAIN requests :
    \/ ReceiveRegister(r) \/ ReceiveGenerate(r) \/ GetCurrentUser(r)
    \/ RegisterCheck(r) \/ RegisterInsert(r) \/ GenerateCheck(r) \/ GenerateStore(r)

SpecGen == InitGen /\ [][NextGen]_vars

\* user documents of every tier
TierUsers ==
  ("u1" :> User("a@example.com", FREE, 0, GetTierLimits(FREE)))
  @@ ("u2" :> User("p@example.com", PRO, 0, GetTierLimits(PRO)))
  @@ ("u3" :> User("c@example.com", CREATOR, 0, GetTierLimits(CREATOR)))

InitCnv ==
  /\ users = TierUsers
  /\ automations = <<>>
  /\ conversions = <<>>
  /\ requests = [r \in RequestSlots |-> NoRequest]
  /\ served = 0
  /\ ConvIdle /\ DbgIdle /\ TrbIdle

NextCnv ==
  \E r \in DOMAIN requests :
    \/ ReceiveConvert(r) \/ GetCurrentUser(r) \/ ConvertCheck(r)
    \/ ConvertStore(r) \/ ConvertFail(r)

SpecCnv == InitCnv /\ [][NextCnv]_vars
-----------------------------------------------------------------------------
(* All components together.                                                *)

Init == InitConv \/ InitDbg \/ InitTrb \/ InitPar \/ InitGen \/ InitCnv
Next == NextConv \/ NextDbg \/ NextTrb \/ NextPar \/ NextGen \/ NextCnv
Spec == Init /\ [][Next]_vars

TypeOK ==
  /\ platform \in {"make", "n8n"}
  /\ stage \in {"idle", "ready", "converted", "roundtrip"}
  /\ (stage \in {"idle", "ready"}) = (first = NoResult)
  /\ (stage = "roundtrip") = (second # NoResult)
  /\ dplatform \in {"make", "n8n"}
  /\ dstage \in {"idle", "ready", "analyzed", "fixed"}
  /\ calls \in 0 .. MaxCalls

-----------------------------------------------------------------------------
(* Properties of the converter.                                            *)

OtherPlatform(p) == IF p = "make" THEN "n8n" ELSE "make"

\* the conversion calls made so far: direction, argument and result
Calls ==
  (IF stage # "ready" THEN {[from |-> platform, arg |-> source, res |-> first]} ELSE {})
  \cup
  (IF stage = "roundtrip"
   THEN {[from |-> OtherPlatform(platform), arg |-> JsonLoads(first.converted_json),
          res |-> second]}
   ELSE {})

SucceededCalls == {c \in Calls : c.res.success}

IdentifierKey(p) == IF p = "make" THEN "module" ELSE "type"

\* the node list a successful call read, and the one it wrote
InNodes(c) == Get(c.arg, NodesKey(c.from), EmptyList).l
OutDocument(c) == JsonLoads(c.res.converted_json)
OutNodes(c) == OutDocument(c).d[NodesKey(OtherPlatform(c.from))].l

\* the action identifier of a source node
Identifier(c, node) == Get(node, IdentifierKey(c.from), PyStr(""))

TableOf(p) == IF p = "make" THEN MAKE_TO_N8N_MAPPING ELSE N8N_TO_MAKE_MAPPING
FallbackOf(p) == IF p = "make" THEN "n8n-nodes-base.httpRequest" ELSE "http:ActionSendData"
IsKey(p, id) == id.t = "str" /\ id.s \in DOMAIN TableOf(p)

WarningFor(p, id) ==
  IF p = "make"
  THEN "No direct n8n equivalent for '" \o Str(id) \o "', using HTTP Request"
  ELSE "No direct Make.com equivalent for '" \o Str(id) \o "', using HTTP module"

FallbackEntryFor(p, id) ==
  IF p = "make"
  THEN "Module '" \o Str(id) \o "' converted to HTTP Request"
  ELSE "Node '" \o Str(id) \o "' converted to HTTP module"

Range(s) == {s[i] : i \in DOMAIN s}

\* C1: in both directions a node whose identifier is a key of the direction's
\* table is emitted with the table's value and adds no warning and no
\* fallback_modules entry; any other node is emitted with the direction's
\* HTTP fallback identifier and adds a fallback entry.
C1_TableOrFallback ==
  \A c \in SucceededCalls :
    \A k \in 1 .. Len(InNodes(c)) :
      LET id == Identifier(c, InNodes(c)[k])
          emitted == OutNodes(c)[k].d[IdentifierKey(OtherPlatform(c.from))]
      IN IF IsKey(c.from, id)
         THEN /\ emitted = PyStr(TableOf(c.from)[id.s])
              /\ WarningFor(c.from, id) \notin Range(c.res.warnings)
              /\ FallbackEntryFor(c.from, id) \notin Range(c.res.fallback_modules)
         ELSE /\ emitted = PyStr(FallbackOf(c.from))
              /\ FallbackEntryFor(c.from, id) \in Range(c.res.fallback_modules)

\* a successful first conversion of a list holding a known and an unknown identifier
C1_Witness ==
  /\ stage = "converted" /\ first.success
  /\ \E c \in SucceededCalls :
       /\ \E k \in 1 .. Len(InNodes(c)) : IsKey(c.from, Identifier(c, InNodes(c)[k]))
       /\ \E k \in 1 .. Len(InNodes(c)) : ~IsKey(c.from, Identifier(c, InNodes(c)[k]))

\* the blueprint 'Test Workflow' of blueprint_converter_test.py
TestWorkflow ==
  PyDict("name" :> PyStr("Test Workflow")
      @@ "flow" :> PyList(<<
           MakeModule(PyInt(1), PyStr("webhook:webhook"), EmptyDict, Absent),
           MakeModule(PyInt(2), PyStr("email:send"), EmailParams, Absent)>>))

TestWorkflowConverted == platform = "make" /\ source = TestWorkflow /\ stage # "ready"

\* two nodes, and the one connection from the first to the second
TwoNodesOneLink(doc) ==
  /\ Len(doc.d["nodes"].l) = 2
  /\ doc.d["connections"] =
       PyDict(doc.d["nodes"].l[1].d["name"].s :>
                PyDict("main" :> PyList(<<PyList(<<doc.d["nodes"].l[2].d["name"]>>)>>)))
  /\ doc.d["nodes"].l[1].d["name"] # doc.d["nodes"].l[2].d["name"]

\* C2 as stated: 'Test Workflow' converts to two linearly connected nodes of
\* the known webhook and email-send identifiers, without a fallback warning.
C2_Original ==
  TestWorkflowConverted =>
    /\ first.success
    /\ TwoNodesOneLink(JsonLoads(first.converted_json))
    /\ JsonLoads(first.converted_json).d["nodes"].l[1].d["type"]
         = PyStr("n8n-nodes-base.webhook")
    /\ JsonLoads(first.converted_json).d["nodes"].l[2].d["type"]
         = PyStr("n8n-nodes-base.emailSend")
    /\ first.warnings = <<>>

\* C2 amended: 'Test Workflow' converts to two linearly connected nodes; neither
\* 'webhook:webhook' nor 'email:send' is a key of MAKE_TO_N8N_MAPPING, so both
\* nodes get the HTTP fallback identifier and the result has two warnings,
\* one naming each identifier.
C2_TestWorkflowFallsBack ==
  TestWorkflowConverted =>
    /\ first.success
    /\ TwoNodesOneLink(JsonLoads(first.converted_json))
    /\ \A k \in 1 .. 2 :
         JsonLoads(first.converted_json).d["nodes"].l[k].d["type"]
           = PyStr("n8n-nodes-base.httpRequest")
    /\ first.warnings =
         <<"No direct n8n equivalent for 'webhook:webhook', using HTTP Request",
           "No direct n8n equivalent for 'email:send', using HTTP Request">>
    /\ Len(first.fallback_modules) = 2

C2_Witness == TestWorkflowConverted /\ stage = "converted"

\* the warnings a node list must produce: one per node that is no key, in order
RECURSIVE WarningsOf(_, _)
WarningsOf(c, nodes) ==
  IF nodes = <<>> THEN <<>>
  ELSE (IF IsKey(c.from, Identifier(c, Head(nodes))) THEN <<>>
        ELSE <<WarningFor(c.from, Identifier(c, Head(nodes)))>>)
       \o WarningsOf(c, Tail(nodes))

UnmappedCount(c) ==
  Cardinality({k \in 1 .. Len(InNodes(c)) : ~IsKey(c.from, Identifier(c, InNodes(c)[k]))})

\* C3: a successful conversion's warnings are one entry per unmapped node, in
\* node order, each naming the node's identifier; fallback_modules is as long
\* as warnings; exactly one unmapped node gives exactly one warning.
C3_OneWarningPerUnmapped ==
  \A c \in SucceededCalls :
    /\ c.res.warnings = WarningsOf(c, InNodes(c))
    /\ Len(c.res.fallback_modules) = Len(c.res.warnings)
    /\ (UnmappedCount(c) = 1 => Len(c.res.warnings) = 1)

\* a successful conversion of two unmapped nodes with different identifiers
\* around a mapped one
C3_Witness ==
  \E c \in SucceededCalls :
    /\ Len(InNodes(c)) >= 2
    /\ Len(c.res.warnings) = 2
    /\ c.res.warnings[1] # c.res.warnings[2]

\* the exception texts of the failures of the model
SampleValues == {PyNone, PyInt(0), PyStr(""), EmptyList, EmptyDict, PyBool(TRUE)}
ExceptionTexts ==
  {AttrError(v, a).msg : v \in SampleValues, a \in {"get", "lower", "upper"}}
  \cup {NotContainer(v).msg : v \in SampleValues}
  \cup {NotIterable(v).msg : v \in SampleValues}
  \cup {Unhashable(v).msg : v \in SampleValues}

IsConversionResult(r) ==
  /\ DOMAIN r = {"success", "converted_json", "warnings", "fallback_modules", "comments"}
  /\ r.success \in BOOLEAN

\* C4: no conversion propagates an exception: every call returns a
\* ConversionResult, and a failed one has success=false, an empty
\* converted_json, exactly one warning carrying the exception text, and empty
\* fallback_modules and comments.
C4_FailureIsAResult ==
  \A c \in Calls :
    /\ IsConversionResult(c.res)
    /\ ~c.res.success =>
         /\ c.res.converted_json = PyStr("")
         /\ Len(c.res.warnings) = 1
         /\ \E e \in ExceptionTexts : c.res.warnings[1] = "Conversion failed: " \o e
         /\ c.res.fallback_modules = <<>>
         /\ c.res.comments = <<>>

\* a conversion of a JSON object that failed on an unhashable identifier
C4_Witness ==
  \E c \in Calls :
    /\ ~c.res.success
    /\ c.arg.t = "dict"
    /\ c.res.warnings = <<"Conversion failed: unhashable type: 'list'">>

\* C5 as stated: every conversion call returns a non-empty document.
C5_Original ==
  \A c \in Calls : IsJsonText(c.res.converted_json)

\* C5 amended: a conversion returns a non-empty target-platform document
\* exactly when it succeeds (fallback substitutions included); a call that
\* hits an internal exception returns success=false with converted_json empty.
C5_DocumentIffSuccess ==
  \A c \in Calls :
    IF c.res.success
    THEN /\ IsJsonText(c.res.converted_json)
         /\ OutDocument(c).t = "dict"
         /\ OutDocument(c).d[NodesKey(OtherPlatform(c.from))].t = "list"
    ELSE c.res.converted_json = PyStr("")

\* a parsed blueprint whose conversion returned the empty document
C5_Witness ==
  \E c \in Calls :
    /\ c.arg.t = "dict" /\ NodesKey(c.from) \in DOMAIN c.arg.d
    /\ ~c.res.success /\ c.res.converted_json = PyStr("")

\* the identifier the direction from platform p resolves id to
Resolve(p, id) ==
  IF IsKey(p, id) THEN PyStr(TableOf(p)[id.s]) ELSE PyStr(FallbackOf(p))

\* the first call and the call that converted its document back
FirstCall == [from |-> platform, arg |-> source, res |-> first]
BackCall ==
  [from |-> OtherPlatform(platform), arg |-> JsonLoads(first.converted_json),
   res |-> second]

\* node k of the round trip's result comes from node k of the blueprint: it
\* has the identifier that node's identifier resolves to, there and back, and
\* the id, name and layout position of index k
DerivedFromSource(k) ==
  LET id == Identifier(FirstCall, InNodes(FirstCall)[k])
      out == OutNodes(BackCall)[k]
  IN IF platform = "make"
     THEN /\ out.d["module"] = Resolve("n8n", Resolve("make", id))
          /\ out.d["id"] = PyInt(k)
          /\ out.d["metadata"].d["designer"].d["x"] = PyInt((k - 1) * 300)
     ELSE /\ out.d["type"] = Resolve("make", Resolve("n8n", id))
          /\ out.d["name"] = PyStr("Step " \o ToString(k))
          /\ out.d["position"].l[1] = PyInt(240 + (k - 1) * 220)

RoundTripKeepsNodes ==
  /\ Len(OutNodes(BackCall)) = Len(InNodes(FirstCall))
  /\ \A k \in 1 .. Len(InNodes(FirstCall)) : DerivedFromSource(k)

ProducedFrom(c, k) ==
  IF c.from = "make" THEN MakeModuleToNode(InNodes(c)[k], k - 1).node
  ELSE N8nNodeToModule(InNodes(c)[k], k - 1).node

\* C8: a successful conversion emits as many nodes as it read, and output
\* node k is the node made of input node k: nothing is reordered, dropped,
\* duplicated or merged, also when input nodes share an id or a name.
C8_NodeForNode ==
  \A c \in SucceededCalls :
    /\ Len(OutNodes(c)) = Len(InNodes(c))
    /\ \A k \in 1 .. Len(InNodes(c)) : OutNodes(c)[k] = ProducedFrom(c, k)

\* a successful conversion of a list in which two different nodes share the
\* id (Make) or the name (n8n)
C8_Witness ==
  /\ stage = "converted" /\ first.success
  /\ \E j, k \in 1 .. Len(InNodes(FirstCall)) :
       LET a == InNodes(FirstCall)[j]
           b == InNodes(FirstCall)[k]
           key == IF platform = "make" THEN "id" ELSE "name"
       IN /\ j < k /\ a # b
          /\ key \in DOMAIN a.d /\ key \in DOMAIN b.d /\ a.d[key] = b.d[key]

\* the link the connections map must hold from a node to the next one
LinkTo(next) == PyDict("main" :> PyList(<<PyList(<<next.d["name"]>>)>>))

\* C9 as stated: converting a Make blueprint of n nodes gives a linear chain:
\* the connections map links output node i to output node i+1 for every i,
\* which are exactly n-1 edges, and none leaves the last node.
C9_Original ==
  \A c \in SucceededCalls :
    c.from = "make" =>
      LET nodes == OutNodes(c)
          n == Len(nodes)
          connections == OutDocument(c).d["connections"].d
      IN /\ \A i \in 1 .. n - 1 :
              /\ nodes[i].d["name"].s \in DOMAIN connections
              /\ connections[nodes[i].d["name"].s] = LinkTo(nodes[i + 1])
         /\ n >= 1 => Cardinality(DOMAIN connections) = n - 1
         /\ n >= 1 => nodes[n].d["name"].s \notin DOMAIN connections


\* the substrings that select a category-specific translation of the parameters
CategoryWords(p) ==
  IF p = "make" THEN {"google-sheets", "openai", "http"}
  ELSE {"googleSheets", "openAi", "httpRequest"}

\* the identifier is a text that holds none of the category substrings
IsGeneric(p, id) ==
  id.t = "str" /\ \A w \in CategoryWords(p) : ~Contains(w, id.s)

\* the fields a source node hands to the translation: its parameter map and,
\* for a Make module, its data-mapping map
ParametersOf(node) == Get(node, "parameters", EmptyDict)
MapperOf(c, node) == IF c.from = "make" THEN Get(node, "mapper", EmptyDict) ELSE EmptyDict

\* C22: in a successful conversion, the parameter map emitted for a generic
\* node has exactly the keys of the node's parameter map and of its
\* data-mapping map, each key with the data-mapping's value if it has one and
\* the parameter map's value otherwise; no source field is dropped.
C22_GenericKeepsAllFields ==
  \A c \in SucceededCalls :
    \A k \in 1 .. Len(InNodes(c)) :
      IsGeneric(c.from, Identifier(c, InNodes(c)[k])) =>
        LET params == ParametersOf(InNodes(c)[k]).d
            mapper == MapperOf(c, InNodes(c)[k]).d
            emitted == OutNodes(c)[k].d["parameters"].d
        IN /\ DOMAIN emitted = DOMAIN params \cup DOMAIN mapper
           /\ \A x \in DOMAIN mapper : emitted[x] = mapper[x]
           /\ \A x \in DOMAIN params \ DOMAIN mapper : emitted[x] = params[x]

\* C22's case: a successful Make conversion of a generic module whose two maps
\* share a key with different values and each hold a key of their own
C22_Witness ==
  /\ \E c \in SucceededCalls :
       /\ c.from = "make"
       /\ \E k \in 1 .. Len(InNodes(c)) :
            /\ IsGeneric("make", Identifier(c, InNodes(c)[k]))
            /\ \E x \in DOMAIN ParametersOf(InNodes(c)[k]).d \cap DOMAIN MapperOf(c, InNodes(c)[k]).d :
                 ParametersOf(InNodes(c)[k]).d[x] # MapperOf(c, InNodes(c)[k]).d[x]
            /\ DOMAIN ParametersOf(InNodes(c)[k]).d \ DOMAIN MapperOf(c, InNodes(c)[k]).d # {}
            /\ DOMAIN MapperOf(c, InNodes(c)[k]).d \ DOMAIN ParametersOf(InNodes(c)[k]).d # {}

\* the credentials block of each n8n identifier that requires credentials:
\* the key of the block, and the id and name of the placeholder
CredentialFamilies ==
  ("n8n-nodes-base.googleSheets" :> <<"googleSheetsOAuth2Api", "google_sheets", "Google Sheets">>)
  @@ ("n8n-nodes-base.googleSheetsTrigger" :> <<"googleSheetsOAuth2Api", "google_sheets", "Google Sheets">>)
  @@ ("n8n-nodes-base.openAi" :> <<"openAiApi", "openai", "OpenAI">>)
  @@ ("n8n-nodes-base.wordpress" :> <<"wordpressApi", "wordpress", "WordPress">>)
  @@ ("n8n-nodes-base.gmail" :> <<"gmailOAuth2", "gmail", "Gmail">>)

\* C23: in a successful Make to n8n conversion an output node has a
\* credentials block exactly when its n8n identifier is one of googleSheets,
\* googleSheetsTrigger, openAi, wordpress and gmail, the block is the one of
\* that identifier's family, and a node that fell back to the HTTP request
\* identifier has none.
C23_CredentialsIffRequired ==
  \A c \in SucceededCalls :
    c.from = "make" =>
      \A k \in 1 .. Len(OutNodes(c)) :
        LET node == OutNodes(c)[k].d
            type == node["type"].s
        IN /\ ("credentials" \in DOMAIN node) = (type \in DOMAIN CredentialFamilies)
           /\ type \in DOMAIN CredentialFamilies =>
                node["credentials"] =
                  PyDict(CredentialFamilies[type][1] :>
                           PyDict("id" :> PyStr(CredentialFamilies[type][2])
                               @@ "name" :> PyStr(CredentialFamilies[type][3])))
           /\ ~IsKey("make", Identifier(c, InNodes(c)[k])) =>
                type = "n8n-nodes-base.httpRequest" /\ "credentials" \notin DOMAIN node

\* C23's case: one successful Make to n8n conversion emitted a node with a
\* credentials block next to a fallback node without one
C23_Witness ==
  \E c \in SucceededCalls :
    /\ c.from = "make"
    /\ \E k \in 1 .. Len(OutNodes(c)) : "credentials" \in DOMAIN OutNodes(c)[k].d
    /\ \E k \in 1 .. Len(OutNodes(c)) :
         /\ ~IsKey("make", Identifier(c, InNodes(c)[k]))
         /\ "credentials" \notin DOMAIN OutNodes(c)[k].d

\* the positions of the forward table's entries whose image is the n8n
\* identifier v, and the Make identifier of the last of them
GroupOf(v) == {i \in 1 .. Len(MAKE_TO_N8N_ITEMS) : MAKE_TO_N8N_ITEMS[i][2] = v}
LastOf(v) ==
  MAKE_TO_N8N_ITEMS[CHOOSE i \in GroupOf(v) : \A j \in GroupOf(v) : j <= i][1]

\* the n8n identifiers that the forward table has as images, and those that
\* the explicit update of the reverse table sets
Images == {MAKE_TO_N8N_ITEMS[i][2] : i \in 1 .. Len(MAKE_TO_N8N_ITEMS)}
Overridden == {N8N_TO_MAKE_UPDATE[i][1] : i \in 1 .. Len(N8N_TO_MAKE_UPDATE)}

\* the Make identifier is a key of the forward table that is not the last
\* entry of its image's group
Shadowed(id) ==
  /\ IsKey("make", id)
  /\ MAKE_TO_N8N_MAPPING[id.s] \notin Overridden
  /\ LastOf(MAKE_TO_N8N_MAPPING[id.s]) # id.s

\* C24: the reverse table maps every image of the forward table that no
\* explicit override sets to the Make identifier of the last forward entry
\* with that image, and a Make to n8n to Make round trip that succeeds
\* returns, for a module whose identifier is an earlier entry of its group,
\* that last identifier and not the module's own.
C24_LastEntryWins ==
  /\ \A v \in Images \ Overridden :
       v \in DOMAIN N8N_TO_MAKE_MAPPING /\ N8N_TO_MAKE_MAPPING[v] = LastOf(v)
  /\ (stage = "roundtrip" /\ platform = "make" /\ second.success) =>
       \A k \in 1 .. Len(InNodes(FirstCall)) :
         LET id == Identifier(FirstCall, InNodes(FirstCall)[k])
         IN Shadowed(id) =>
              /\ OutNodes(BackCall)[k].d["module"] # id
              /\ OutNodes(BackCall)[k].d["module"] =
                   PyStr(LastOf(MAKE_TO_N8N_MAPPING[id.s]))

\* C24's case: a completed round trip of a blueprint with the module
\* http:ActionSendData, the first of the three entries that share the image
\* n8n-nodes-base.httpRequest, came back with instagram:CreateMedia
C24_Witness ==
  /\ stage = "roundtrip" /\ platform = "make" /\ second.success
  /\ Cardinality(GroupOf("n8n-nodes-base.httpRequest")) = 3
  /\ \E k \in 1 .. Len(InNodes(FirstCall)) :
       /\ Identifier(FirstCall, InNodes(FirstCall)[k]) = PyStr("http:ActionSendData")
       /\ Shadowed(PyStr("http:ActionSendData"))
       /\ OutNodes(BackCall)[k].d["module"] = PyStr("instagram:CreateMedia")

\* C29 as stated: in the n8n document that convert_make_to_n8n produces the
\* display names of the nodes are pairwise distinct, for every input flow.
C29_Original ==
  \A c \in SucceededCalls :
    c.from = "make" =>
      \A i, j \in 1 .. Len(OutNodes(c)) :
        i # j => OutNodes(c)[i].d["name"] # OutNodes(c)[j].d["name"]
-----------------------------------------------------------------------------
(* Properties of the debugger.                                             *)

\* C6 as stated: analyze_workflow never raises, for any parsed blueprint and
\* either platform; it always returns a list of findings.
C6_Original ==
  dstage = "analyzed" => ~IsExc(findings) /\ findings.t = "errors"

\* the node list of a blueprint of the debugger's platform, <<>> if it has none
NodeListOf(doc) ==
  IF doc.t = "dict" /\ NodesKey(dplatform) \in DOMAIN doc.d
     /\ doc.d[NodesKey(dplatform)].t = "list"
  THEN doc.d[NodesKey(dplatform)].l
  ELSE <<>>

\* the reference a finding makes to a node: the text of the node's id (Make),
\* the node's name (n8n)
ReferenceOf(node) ==
  IF dplatform = "make"
  THEN PyStr(Str(IF "id" \in DOMAIN node.d THEN node.d["id"] ELSE PyNone))
  ELSE IF "name" \in DOMAIN node.d THEN node.d["name"] ELSE PyNone

HasFinding(node) ==
  /\ node.t = "dict"
  /\ \E i \in 1 .. Len(findings.l) : findings.l[i].module_id = ReferenceOf(node)

\* C10: generate_fix changes only nodes that an input finding refers to: any
\* other node is the same before and after the call, in the caller's blueprint
\* and in the returned document, for both platforms and any findings list.
C10_FixTouchesOnlyReferenced ==
  dstage = "fixed" =>
    /\ Len(NodeListOf(after)) = Len(NodeListOf(workflow))
    /\ \A k \in 1 .. Len(NodeListOf(workflow)) :
         ~HasFinding(NodeListOf(workflow)[k]) =>
           /\ NodeListOf(after)[k] = NodeListOf(workflow)[k]
           /\ ~IsExc(fixed) => NodeListOf(fixed)[k] = NodeListOf(workflow)[k]
    /\ NodeListOf(workflow) = <<>> => after = workflow

\* a fix that changed a node, in a list with a node no finding refers to
C10_Witness ==
  /\ dstage = "fixed" /\ ~IsExc(fixed)
  /\ \E k \in 1 .. Len(NodeListOf(workflow)) : NodeListOf(fixed)[k] # NodeListOf(workflow)[k]
  /\ \E k \in 1 .. Len(NodeListOf(workflow)) : ~HasFinding(NodeListOf(workflow)[k])


-----------------------------------------------------------------------------
(* The HTTP rule and repeated analyses.                                    *)

\* did the fix in hand get the findings of the analysis of `workflow`
FixedFromAnalysis ==
  /\ dstage = "fixed" /\ analyses # <<>> /\ findings = analyses[1]

\* the field of node[key], PyNone when the node has no such map or field
FieldOf(node, key, field) ==
  IF key \in DOMAIN node.d /\ node.d[key].t = "dict" /\ field \in DOMAIN node.d[key].d
  THEN node.d[key].d[field]
  ELSE PyNone

\* a well-formed node: a map whose identifier is text and whose parameters
\* and data-mapping, where present, are maps
WellFormed(node) ==
  /\ node.t = "dict"
  /\ IdentifierKey(dplatform) \in DOMAIN node.d
  /\ node.d[IdentifierKey(dplatform)].t = "str"
  /\ \A key \in {"parameters", "mapper"} : key \in DOMAIN node.d => node.d[key].t = "dict"

\* the category of a well-formed node: the first keyword its identifier holds
CategoryOf(node) ==
  LET id == node.d[IdentifierKey(dplatform)].s
      sheets == IF dplatform = "make" THEN "google-sheets" ELSE "googleSheets"
      ai == IF dplatform = "make" THEN "openai" ELSE "openAi"
      http == IF dplatform = "make" THEN "http" ELSE "httpRequest"
  IN IF Contains(sheets, id) THEN "sheets"
     ELSE IF Contains(ai, id) THEN "ai"
     ELSE IF Contains(http, id) THEN "http"
     ELSE "other"

\* is the well-formed node defective: its category's required field is missing
Defective(node) ==
  CASE CategoryOf(node) = "sheets" ->
         ~Truthy(FieldOf(node, "parameters",
                         IF dplatform = "make" THEN "spreadsheetId" ELSE "sheetId"))
    [] CategoryOf(node) = "ai" -> ~Truthy(FieldOf(node, "parameters", "model"))
    [] CategoryOf(node) = "http" ->
         /\ ~Truthy(FieldOf(node, "parameters", "url"))
         /\ dplatform = "make" => ~Truthy(FieldOf(node, "mapper", "url"))
    [] OTHER -> FALSE

\* the positions of the defective nodes of a list of well-formed nodes
DefectiveAt(nodes) == {k \in 1 .. Len(nodes) : Defective(nodes[k])}

\* the only defective node of `workflow` is an HTTP-category node without url
OnlyHttpNodeDefective(k) ==
  /\ workflow.t = "dict"
  /\ NodeListOf(workflow) # <<>>
  /\ \A j \in 1 .. Len(NodeListOf(workflow)) : WellFormed(NodeListOf(workflow)[j])
  /\ DefectiveAt(NodeListOf(workflow)) = {k}
  /\ CategoryOf(NodeListOf(workflow)[k]) = "http"

PLACEHOLDER_URL == PyStr("https://api.example.com")

\* C11 as stated: for a blueprint whose only defective node is an HTTP-category
\* node without url, analyze_workflow returns exactly one finding, of type
\* PARAMETER_MISSING and severity critical, and generate_fix with that finding
\* puts the placeholder URL into that node (mapper for Make, parameters for n8n).
C11_Original ==
  \A k \in 1 .. Len(NodeListOf(workflow)) :
    FixedFromAnalysis /\ OnlyHttpNodeDefective(k) =>
      /\ ~IsExc(findings) /\ Len(findings.l) = 1
      /\ findings.l[1].error_type = PARAMETER_MISSING
      /\ findings.l[1].severity = "critical"
      /\ ~IsExc(fixed)
      /\ FieldOf(NodeListOf(fixed)[k],
                 IF dplatform = "make" THEN "mapper" ELSE "parameters", "url")
           = PLACEHOLDER_URL

\* the reference a finding holds for a node: the text of its id (Make) or its
\* name (n8n), "unknown" when the node has none
ReferenceInFinding(node) ==
  IF dplatform = "make"
  THEN PyStr(Str(IF "id" \in DOMAIN node.d THEN node.d["id"] ELSE PyStr("unknown")))
  ELSE IF "name" \in DOMAIN node.d THEN node.d["name"] ELSE PyStr("unknown")

\* the defective nodes of a list of well-formed nodes, in the list's order
RECURSIVE DefectiveNodes(_)
DefectiveNodes(nodes) ==
  IF nodes = <<>> THEN <<>>
  ELSE (IF Defective(Head(nodes)) THEN <<Head(nodes)>> ELSE <<>>)
       \o DefectiveNodes(Tail(nodes))

AllWellFormed ==
  /\ workflow.t = "dict"
  /\ NodesKey(dplatform) \in DOMAIN workflow.d => workflow.d[NodesKey(dplatform)].t = "list"
  /\ \A j \in 1 .. Len(NodeListOf(workflow)) : WellFormed(NodeListOf(workflow)[j])

-----------------------------------------------------------------------------
(* Aliasing and completeness of the fix.                                   *)

\* the positions at which the returned document's node differs from the node
\* of the blueprint as it was before the call
PatchedAt ==
  {k \in 1 .. Len(NodeListOf(workflow)) : NodeListOf(fixed)[k] # NodeListOf(workflow)[k]}

\* C25: when generate_fix returns a document in which at least one node was
\* patched, the caller's blueprint after the call has the same node list as
\* the returned document, so each patched node shows the inserted value in
\* the caller's blueprint too, and the caller's blueprint is no longer what it
\* was before the call.
C25_InputSharesNodes ==
  (dstage = "fixed" /\ ~IsExc(fixed) /\ PatchedAt # {}) =>
    /\ NodeListOf(after) = NodeListOf(fixed)
    /\ \A k \in PatchedAt : NodeListOf(after)[k] # NodeListOf(workflow)[k]
    /\ after # workflow

\* C25's case: a fix from the analysis put the placeholder URL into a node of
\* the returned document, and the caller's blueprint shows it at that node
C25_Witness ==
  /\ FixedFromAnalysis /\ ~IsExc(fixed)
  /\ \E k \in PatchedAt :
       /\ FieldOf(NodeListOf(fixed)[k],
                  IF dplatform = "make" THEN "mapper" ELSE "parameters", "url")
            = PLACEHOLDER_URL
       /\ FieldOf(NodeListOf(after)[k],
                  IF dplatform = "make" THEN "mapper" ELSE "parameters", "url")
            = PLACEHOLDER_URL
       /\ FieldOf(NodeListOf(workflow)[k],
                  IF dplatform = "make" THEN "mapper" ELSE "parameters", "url")
            = PyNone

\* C26 as stated: whenever analyze_workflow returned a finding list and
\* generate_fix was applied with exactly those findings, generate_fix returns
\* a document and analysing that document again for the same platform returns
\* the empty finding list.
C26_Original ==
  (FixedFromAnalysis /\ ~IsExc(findings)) =>
    /\ ~IsExc(fixed)
    /\ AnalyzeWorkflowResult(fixed, dplatform) = ErrorList(<<>>)

-----------------------------------------------------------------------------
(* Properties of the diagnostic dialogue.                                  *)

\* did the call raise
Raised(r) == "t" \in DOMAIN r /\ r.t = "exc"

IsQuestion(r) == DOMAIN r = {"question", "options"}

IsAnalysis(r) ==
  \/ DOMAIN r = {"analysis", "errors", "fixed_workflow", "has_fix"}
  \/ DOMAIN r = {"analysis", "suggestions", "has_fix"}

\* does the message name one of the two platforms
NamesPlatform(user_input) ==
  ContainsLower("make", user_input.s) \/ ContainsLower("n8n", user_input.s)

\* the step of a session in a session map; a session without entry is at the start
StepIn(cs, s) == IF s \in DOMAIN cs THEN cs[s].step ELSE "initial"

\* C15: for every session and every message the step only moves forward along
\* initial, get_error, get_module, get_input, analyze: initial stays initial
\* when the message names neither platform and otherwise becomes get_error,
\* get_error becomes get_module, get_module becomes analyze or get_input,
\* get_input becomes analyze, and no step goes back to an earlier one.
C15_ForwardOnly ==
  [][\A s \in SessionIds :
       LET before == StepIn(conversation_state, s)
           now == StepIn(conversation_state', s)
       IN IF asked' = PyNone \/ asked'.session_id # s THEN now = before
          ELSE CASE before = "initial" ->
                      now = IF NamesPlatform(asked'.user_input) THEN "get_error"
                            ELSE "initial"
                 [] before = "get_error" -> now = "get_module"
                 [] before = "get_module" -> now \in {"analyze", "get_input"}
                 [] before = "get_input" -> now = "analyze"
                 [] OTHER -> now = before]_vars

\* a session went through every step: it is in analyze and holds an error
\* message, a failing-module label and the input data
C15_Witness ==
  \E s \in DOMAIN conversation_state :
    /\ conversation_state[s].step = "analyze"
    /\ conversation_state[s].error_message # PyNone
    /\ conversation_state[s].failing_module # PyNone
    /\ conversation_state[s].input_data # Absent

\* the tips of the keywords that the label holds, in the order google sheets,
\* openai, http; the generic list when it holds none
TipsFor(label) ==
  LET tips == [k \in 1 .. 3 |-> IF ContainsLower(COMMON_SOLUTIONS[k][1], label)
                                 THEN COMMON_SOLUTIONS[k][2] ELSE <<>>]
  IN IF tips[1] \o tips[2] \o tips[3] = <<>> THEN GENERIC_SUGGESTIONS
     ELSE tips[1] \o tips[2] \o tips[3]

\* C16: a session driven through initial, get_error, get_module and get_input
\* with a text that is no JSON at the get_module prompt ends in analyze, and
\* the last response has has_fix = false and a non-empty suggestions list: the
\* tips of the keywords ('google sheets', 'openai', 'http', matched on the
\* lower-cased text) that the stored failing-module text holds, the generic
\* three-item list when it holds none.
C16_KeywordTips ==
  asked # PyNone /\ asked.step = "get_input" =>
    LET state == conversation_state[asked.session_id]
    IN /\ state.step = "analyze"
       /\ state.workflow_json = PyNone
       /\ IsExc(JsonLoads(state.failing_module))
       /\ ~Raised(reply)
       /\ DOMAIN reply = {"analysis", "suggestions", "has_fix"}
       /\ reply.has_fix = FALSE
       /\ reply.suggestions # <<>>
       /\ reply.suggestions = TipsFor(state.failing_module.s)
       /\ TipsFor(state.failing_module.s) = GENERIC_SUGGESTIONS
            => Len(reply.suggestions) = 3

\* the label "openai over http" got the tips of both keywords
C16_Witness ==
  /\ asked # PyNone /\ asked.step = "get_input"
  /\ conversation_state[asked.session_id].failing_module = PyStr("openai over http")
  /\ ~Raised(reply) /\ Len(reply.suggestions) = 6

\* C17 as stated: every call of ask_diagnostic_questions returns a next
\* question or an analysis and never raises, for every session and every
\* sequence of messages.
C17_Original ==
  asked # PyNone => ~Raised(reply) /\ (IsQuestion(reply) \/ IsAnalysis(reply))

\* C18 as stated: in get_module a message that parses as JSON is stored as the
\* session's blueprint, moves the session to analyze and returns an analysis
\* (findings and patched document with has_fix = true when the validator has
\* findings, suggestions with has_fix = false otherwise); a message that does
\* not parse is stored as the failing-module label and moves the session to
\* get_input.
C18_Original ==
  asked # PyNone /\ asked.step = "get_module" =>
    LET state == conversation_state[asked.session_id]
    IN IF ~IsExc(JsonLoads(asked.user_input))
       THEN /\ state.step = "analyze"
            /\ ~Raised(reply) /\ IsAnalysis(reply)
            /\ reply.has_fix = ("fixed_workflow" \in DOMAIN reply)
            /\ reply.has_fix \/ state.workflow_json = JsonLoads(asked.user_input)
       ELSE /\ state.failing_module = asked.user_input
            /\ state.step = "get_input"
            /\ IsQuestion(reply)

\* the session map and the two returns after the calls of threads a and b,
\* made one after the other from the map `started`
OneAfterTheOther(a, b) ==
  LET ra == AskDiagnosticQuestionsResult(started, threads[a].user_input,
                                         threads[a].session_id)
      rb == AskDiagnosticQuestionsResult(ra.conversation_state, threads[b].user_input,
                                         threads[b].session_id)
  IN [conversation_state |-> rb.conversation_state,
      returned |-> (a :> ra.returned) @@ (b :> rb.returned)]

\* C19 as stated: two messages for one session that are processed in parallel
\* read and update the session state atomically: the session ends in the state,
\* and the two calls get the responses, of the two calls made one after the
\* other in some order, so no transition is lost and no two calls consume the
\* same step.
C19_Original ==
  (\A t \in DOMAIN threads : threads[t].pc = "done") /\ DOMAIN threads # {} =>
    \E a, b \in DOMAIN threads :
      /\ a # b
      /\ conversation_state = OneAfterTheOther(a, b).conversation_state
      /\ \A t \in {a, b} : threads[t].returned = OneAfterTheOther(a, b).returned[t]

-----------------------------------------------------------------------------
(* The end of the dialogue, and the sessions among each other.             *)

\* the call that this step makes, if it makes one: its session
CallFor(s) == calls' = calls + 1 /\ asked'.session_id = s

\* C28: once the step of a session is analyze, every later call for that
\* session, made after the earlier calls have returned, leaves the session's
\* state (and the whole session map) as it was and returns the question
\* 'I need more information to help you.' with no options; so the step never
\* becomes initial again and no further analysis is returned.
C28_AnalyzeAbsorbs ==
  [][\A s \in SessionIds :
       (s \in DOMAIN conversation_state /\ conversation_state[s].step = "analyze"
        /\ CallFor(s)) =>
         /\ conversation_state' = conversation_state
         /\ reply' = NEED_MORE
         /\ asked'.step = "analyze"]_vars

\* a session that was given an analysis of its blueprint got a further message
\* and the generic question
C28_Witness ==
  /\ asked # PyNone /\ asked.step = "analyze"
  /\ conversation_state[asked.session_id].step = "analyze"
  /\ conversation_state[asked.session_id].workflow_json # PyNone
  /\ reply = NEED_MORE

\* C30: a call for session s leaves the map with the entries it had and an
\* entry for s; the entry of every other session is what it was before the
\* call, and an entry that did not exist is created for s alone: the fresh
\* session, with the platform recorded when the message names one.
C30_SessionsApart ==
  [][\A s \in SessionIds :
       CallFor(s) =>
         /\ DOMAIN conversation_state' = DOMAIN conversation_state \cup {s}
         /\ \A o \in DOMAIN conversation_state \ {s} :
              conversation_state'[o] = conversation_state[o]
         /\ s \notin DOMAIN conversation_state =>
              \/ conversation_state'[s] = NewSession
              \/ \E p \in {"make", "n8n"} :
                   conversation_state'[s]
                     = [NewSession EXCEPT !.platform = PyStr(p), !.step = "get_error"]]_vars

\* a call for s2 was made while s1 had gone further: both entries are there,
\* at different steps
C30_Witness ==
  /\ DOMAIN conversation_state = {"s1", "s2"}
  /\ asked # PyNone /\ asked.session_id = "s2"
  /\ conversation_state["s1"].step = "get_module"
  /\ conversation_state["s2"].step = "get_error"
-----------------------------------------------------------------------------
(* Claims about the HTTP API.                                              *)

\* the requests of an endpoint that have been authenticated
Authenticated(r, endpoint) ==
  requests[r].endpoint = endpoint /\ requests[r].current_user # PyNone

\* the response is an error with this status whose detail contains the words
Rejected(response, status_code, words) ==
  /\ response # PyNone
  /\ "detail" \in DOMAIN response
  /\ response.status_code = status_code
  /\ ContainsCs(LowerCs(Chars[words]), LowerCs(Chars[response.detail]))

\* the texts of BlueprintTexts that the JSON grammar (RFC 8259) derives
JsonDocuments == {PyStr("{}")}

\* the request's body is one that the operation must refuse
Refusable(body) ==
  \/ body.blueprint_json \notin JsonDocuments
  \/ body.source_platform = body.target_platform

\* C13: for a caller allowed to use /convert-blueprint (not on the free
\* tier), a request whose blueprint_json is not valid JSON or whose source
\* and target platforms are equal never reaches the conversion, is answered
\* 400 when it ends, and no conversion record holds a text that is not JSON
\* or equal platforms.
C13_Original ==
  /\ \A r \in RequestSlots :
       (/\ Authenticated(r, "convert")
        /\ ~IsFreeTier(requests[r].current_user)
        /\ Refusable(requests[r].body))
       => /\ ~requests[r].invoked
          /\ requests[r].pc = "done" => requests[r].response.status_code = 400
  /\ \A i \in 1 .. Len(conversions) :
       /\ conversions[i].original_json \in JsonDocuments
       /\ conversions[i].source_platform # conversions[i].target_platform

\* C14: a /convert-blueprint request of a user on the free tier never
\* reaches the validation's outcome or the conversion: whatever its body, it
\* ends with 403 and the 'Pro feature' detail, and no conversion record
\* belongs to a free user.
C14_FreeNeverConverts ==
  /\ \A r \in RequestSlots :
       (Authenticated(r, "convert") /\ requests[r].current_user.subscription_tier = FREE)
       => /\ ~requests[r].invoked
          /\ requests[r].pc \in {"check", "done"}
          /\ requests[r].pc = "done" => Rejected(requests[r].response, 403, "Pro feature")
  /\ \A i \in 1 .. Len(conversions) :
       users[conversions[i].user_id].subscription_tier # FREE

\* C14's case: a free user's request with a body that validation would have
\* refused twice over has been answered 403, and a paid user's request with
\* the same platforms has been answered 400.
C14_Witness ==
  \E r, q \in RequestSlots :
    /\ Authenticated(r, "convert") /\ requests[r].pc = "done"
    /\ requests[r].current_user.subscription_tier = FREE
    /\ requests[r].body.blueprint_json = PyStr("{invalid json}")
    /\ requests[r].body.source_platform = requests[r].body.target_platform
    /\ Rejected(requests[r].response, 403, "Pro feature")
    /\ Authenticated(q, "convert") /\ requests[q].pc = "done"
    /\ requests[q].current_user.subscription_tier = PRO
    /\ requests[q].response.status_code = 400
    /\ conversions = <<>>

\* the request asks for a custom automation
Custom(r) ==
  /\ requests[r].endpoint = "generate"
  /\ IS_TEMPLATE_REQUEST[requests[r].body.task_description] = 0

\* C20: registration stores a free user with automations_used 0 and
\* automations_limit 1; the step that completes a custom generation answers
\* 200 and adds exactly 1 to that user's stored automations_used; a custom
\* request authenticated while the stored automations_used is at or above
\* the limit carries that reading, and its check answers 403 'limit reached'
\* without starting the generation and leaves the users and the automations
\* as they were.
C20_Quota ==
  [][\A r \in RequestSlots :
       /\ (requests[r].pc = "creating" /\ requests'[r].pc = "done")
          => \E id \in DOMAIN users' \ DOMAIN users :
               /\ users'[id].subscription_tier = FREE
               /\ users'[id].automations_used = 0
               /\ users'[id].automations_limit = 1
               /\ requests'[r].response.status_code = 200
       /\ (Custom(r) /\ requests[r].pc = "generating" /\ requests'[r].pc = "done")
          => LET id == requests[r].current_user.id
             IN /\ requests'[r].response.status_code = 200
                /\ users'[id].automations_used = users[id].automations_used + 1
                /\ Len(automations') = Len(automations) + 1
       /\ (/\ Custom(r) /\ requests[r].pc = "auth" /\ requests'[r].pc # "auth"
           /\ requests[r].token \in DOMAIN users
           /\ users[requests[r].token].automations_used
                >= users[requests[r].token].automations_limit)
          => /\ requests'[r].pc = "check"
             /\ requests'[r].current_user.automations_used
                  >= requests'[r].current_user.automations_limit
       /\ (/\ Custom(r) /\ requests[r].pc = "check" /\ requests'[r].pc # "check"
           /\ requests[r].current_user.automations_used
                >= requests[r].current_user.automations_limit)
          => /\ requests'[r].pc = "done"
             /\ Rejected(requests'[r].response, 403, "limit reached")
             /\ ~requests'[r].invoked
             /\ users' = users
             /\ automations' = automations
    ]_vars

\* C20's case: a user who registered has had one custom automation
\* generated and stored and the count raised to the limit, and that user's
\* next custom request has been answered 403.
C20_Witness ==
  \E id \in DOMAIN users, r \in RequestSlots :
    /\ users[id].email \in Emails
    /\ users[id].subscription_tier = FREE
    /\ users[id].automations_used = 1
    /\ users[id].automations_limit = 1
    /\ \E i \in 1 .. Len(automations) :
         automations[i].user_id = id /\ ~automations[i].is_template
    /\ Custom(r) /\ requests[r].pc = "done"
    /\ requests[r].current_user # PyNone
    /\ requests[r].current_user.id = id
    /\ requests[r].current_user.automations_used = 1
    /\ Rejected(requests[r].response, 403, "limit reached")
    /\ ~requests[r].invoked

\* the request asks for a template
Template(r) ==
  /\ requests[r].endpoint = "generate"
  /\ IS_TEMPLATE_REQUEST[requests[r].body.task_description] # 0

\* C21: a /generate-automation request recognised as a template request is
\* never stopped by the limit check, also when its user's count is at or
\* above the limit, and the step that completes it answers 200, stores the
\* automation as a template and leaves every stored user (so automations_used)
\* as it was, whatever other requests are in flight.
C21_TemplatesAreFree ==
  [][\A r \in DOMAIN requests :
       /\ (Template(r) /\ requests[r].pc = "check" /\ requests'[r].pc # "check")
          => /\ requests'[r].pc = "generating"
             /\ users' = users
       /\ (Template(r) /\ requests[r].pc = "generating" /\ requests'[r].pc = "done")
          => /\ requests'[r].response.status_code = 200
             /\ requests'[r].response.body.is_template
             /\ Len(automations') = Len(automations) + 1
             /\ users' = users
    ]_vars

\* C21's case: a user whose stored count has reached the limit has had a
\* template request answered 200, authenticated with the count at the limit,
\* and a custom request of the same user, authenticated with the same count,
\* has been refused.
C21_Witness ==
  \E r, q \in DOMAIN requests :
    /\ Template(r) /\ requests[r].pc = "done"
    /\ requests[r].current_user # PyNone
    /\ LimitReached(requests[r].current_user)
    /\ requests[r].response.status_code = 200
    /\ users[requests[r].current_user.id].automations_used
         = requests[r].current_user.automations_used
    /\ Custom(q) /\ requests[q].pc = "done"
    /\ requests[q].current_user # PyNone
    /\ requests[q].current_user.id = requests[r].current_user.id
    /\ Rejected(requests[q].response, 403, "limit reached")

\* C27 as stated: in every interleaving of concurrent /generate-automation
\* requests the stored automations_used of every user stays at or below the
\* user's automations_limit.
C27_Original ==
  \A id \in DOMAIN users : users[id].automations_used <= users[id].automations_limit
====
